---- MODULE Spec2Model ----
(***************************************************************************)
(* Lending-pool accounting core of blend-contracts-v2: reserves            *)
(* (pool/src/pool/reserve.rs), the submit orchestrator                     *)
(* (pool/src/pool/submit.rs), the bad-debt transfer                        *)
(* (pool/src/pool/bad_debt.rs) and the backstop emissions distributor      *)
(* (backstop/src/emissions/distributor.rs).                                *)
(*                                                                         *)
(* Amounts are integers (token units).  TLC's integers are 32 bits wide,   *)
(* so the fixed-point precision is a bound of the model: SCALAR_7 and      *)
(* SCALAR_9 carry 3 and 4 decimals instead of 7 and 9, and amounts stay    *)
(* below a few hundred units.  Every product formed below, a rate times a  *)
(* rate included, stays under 2^31, so no operation of the model           *)
(* overflows.                                                              *)
(***************************************************************************)
EXTENDS Integers, Sequences, FiniteSets, TLC

(***************************************************************************)
(* Bounds of the model                                                     *)
(***************************************************************************)
\* one unit of a 7-decimal ratio (factors, utilization, prices, health factor)
SCALAR_7 == 1000
\* one unit of a 9-decimal exchange rate (b_rate, d_rate, ir_mod, accrual)
SCALAR_9 == 10000
\* ledger timestamps run over 0..MaxTime
MaxTime == 2
\* public pool operations per behaviour
MaxCalls == 1
\* Reserve::load/store rounds per behaviour of the reserve specification
MaxLoads == 3
\* token amounts converted run over 0..MaxAmount, and a few larger ones
MaxAmount == 12
\* calls to the emissions distributor in one behaviour of SpecEmissions
MaxUpdates == 3
\* the smaller of the two amounts of shares deposited or queued at a time
ShareUnit == 30
\* deposits, queued withdrawals and claims in a behaviour of SpecShares
MaxShareCalls == 4

(***************************************************************************)
(* soroban_fixed_point_math::FixedPoint, as used by reserve.rs.  Each      *)
(* returns None (and unwrap_optimized aborts) on a zero denominator; the   *)
(* callers below test the denominator before they use the value.           *)
(***************************************************************************)
div_floor(a, b) == a \div b

div_ceil(a, b) == -((-a) \div b)

fixed_mul_floor(x, y, denominator) == div_floor(x * y, denominator)

fixed_mul_ceil(x, y, denominator) == div_ceil(x * y, denominator)

fixed_div_floor(x, y, denominator) == div_floor(x * denominator, y)

fixed_div_ceil(x, y, denominator) == div_ceil(x * denominator, y)

(***************************************************************************)
(* RequestType (pool/actions.rs), by its discriminant as reserve.rs and    *)
(* the tests of submit.rs use it.                                          *)
(***************************************************************************)
Supply == "Supply"
Withdraw == "Withdraw"
SupplyCollateral == "SupplyCollateral"
WithdrawCollateral == "WithdrawCollateral"
Borrow == "Borrow"
Repay == "Repay"
RequestTypes == {Supply, Withdraw, SupplyCollateral, WithdrawCollateral, Borrow, Repay}

(***************************************************************************)
(* Reserve (reserve.rs).  A Reserve is the record of the struct's fields.  *)
(***************************************************************************)

\* Convert d_tokens to the corresponding asset value
to_asset_from_d_token(r, d_tokens) == fixed_mul_ceil(d_tokens, r.d_rate, SCALAR_9)

\* Convert b_tokens to the corresponding asset value
to_asset_from_b_token(r, b_tokens) == fixed_mul_floor(b_tokens, r.b_rate, SCALAR_9)

\* d_tokens to effective asset value (liability factor); needs l_factor # 0
to_effective_asset_from_d_token(r, d_tokens) ==
    fixed_div_ceil(to_asset_from_d_token(r, d_tokens), r.l_factor, SCALAR_7)

\* b_tokens to effective asset value (collateral factor)
to_effective_asset_from_b_token(r, b_tokens) ==
    fixed_mul_floor(to_asset_from_b_token(r, b_tokens), r.c_factor, SCALAR_7)

\* asset amount to d tokens, rounding up; needs d_rate # 0
to_d_token_up(r, amount) == fixed_div_ceil(amount, r.d_rate, SCALAR_9)

\* mutant of to_d_token_down: the quotient is rounded up
to_d_token_down_rounded_up(r, amount) == fixed_div_ceil(amount, r.d_rate, SCALAR_9)

\* asset amount to d tokens, rounding down; needs d_rate # 0
to_d_token_down(r, amount) == fixed_div_floor(amount, r.d_rate, SCALAR_9)

\* asset amount to b tokens, rounding up; needs b_rate # 0
to_b_token_up(r, amount) == fixed_div_ceil(amount, r.b_rate, SCALAR_9)

\* mutant of to_b_token_down: the quotient is rounded up
to_b_token_down_rounded_up(r, amount) == fixed_div_ceil(amount, r.b_rate, SCALAR_9)

\* asset amount to b tokens, rounding down; needs b_rate # 0
to_b_token_down(r, amount) == fixed_div_floor(amount, r.b_rate, SCALAR_9)

\* total liabilities of the reserve in underlying tokens
total_liabilities(r) == to_asset_from_d_token(r, r.d_supply)

\* total supply of the reserve in underlying tokens
total_supply(r) == to_asset_from_b_token(r, r.b_supply)

\* utilization() aborts (fixed_div_ceil returns None) when total_supply is 0
utilization_ok(r) == total_supply(r) # 0

\* current utilization rate, 7 decimals, rounded up
utilization(r) == fixed_div_ceil(total_liabilities(r), total_supply(r), SCALAR_7)

\* mutant of require_utilization_below_max: a utilization of max_util fails too
require_utilization_under_max(r) ==
    IF ~utilization_ok(r) THEN "Arith"
    ELSE IF utilization(r) >= r.max_util THEN "InvalidUtilRate"
    ELSE ""

\* require_utilization_below_max: "" when it passes, else the error raised
require_utilization_below_max(r) ==
    IF ~utilization_ok(r) THEN "Arith"
    ELSE IF utilization(r) > r.max_util THEN "InvalidUtilRate"
    ELSE ""

\* mutant of require_action_allowed: a disabled reserve allows nothing
require_action_allowed_none_if_disabled(r, action_type) ==
    IF ~r.enabled THEN "ReserveDisabled" ELSE ""

\* require_action_allowed: "" when it passes, else the error raised
require_action_allowed(r, action_type) ==
    IF ~r.enabled /\ action_type \in {Supply, SupplyCollateral, Borrow}
    THEN "ReserveDisabled"
    ELSE ""

\* mutant of gulp: the backstop's share is not taken out of the accrued interest
gulp_credit_not_deducted(r, bstop_rate, accrued) ==
    LET pre_update_supply == total_supply(r)
        new_backstop_credit ==
            IF bstop_rate > 0 THEN fixed_mul_floor(accrued, bstop_rate, SCALAR_7) ELSE 0
    IN IF accrued > 0
       THEN [r EXCEPT !.backstop_credit = @ + new_backstop_credit,
                      !.b_rate = fixed_div_floor(pre_update_supply + accrued,
                                                 r.b_supply, SCALAR_9)]
       ELSE r

\* mutant of gulp: the backstop is credited the whole amount, the suppliers their share
gulp_credit_in_full(r, bstop_rate, accrued) ==
    LET pre_update_supply == total_supply(r)
        new_backstop_credit ==
            IF bstop_rate > 0 THEN fixed_mul_floor(accrued, bstop_rate, SCALAR_7) ELSE 0
    IN IF accrued > 0
       THEN [r EXCEPT !.backstop_credit = @ + accrued,
                      !.b_rate = fixed_div_floor(pre_update_supply + accrued
                                                   - new_backstop_credit,
                                                 r.b_supply, SCALAR_9)]
       ELSE r

\* gulp(bstop_rate, accrued): needs b_supply # 0 when accrued > 0
gulp(r, bstop_rate, accrued) ==
    LET pre_update_supply == total_supply(r)
        new_backstop_credit ==
            IF bstop_rate > 0 THEN fixed_mul_floor(accrued, bstop_rate, SCALAR_7) ELSE 0
    IN IF accrued > 0
       THEN [r EXCEPT !.backstop_credit = @ + new_backstop_credit,
                      !.b_rate = fixed_div_floor(pre_update_supply + accrued
                                                   - new_backstop_credit,
                                                 r.b_supply, SCALAR_9)]
       ELSE r

\* the Reserve that load builds from the stored config and data (lines 47-65)
reserve_of(asset, cfg, data) ==
    [asset |-> asset, index |-> cfg.index, l_factor |-> cfg.l_factor,
     c_factor |-> cfg.c_factor, max_util |-> cfg.max_util,
     last_time |-> data.last_time, scalar |-> cfg.scalar,
     d_rate |-> data.d_rate, b_rate |-> data.b_rate, ir_mod |-> data.ir_mod,
     b_supply |-> data.b_supply, d_supply |-> data.d_supply,
     backstop_credit |-> data.backstop_credit,
     collateral_cap |-> cfg.collateral_cap, enabled |-> cfg.enabled]

\* load aborts only where utilization() does (total_supply 0 with b_supply # 0)
load_ok(asset, cfg, data, timestamp) ==
    LET reserve == reserve_of(asset, cfg, data)
    IN timestamp = reserve.last_time \/ reserve.b_supply = 0 \/ utilization_ok(reserve)

\* the reserve after the interest accrued up `pre_update_liabilities` (lines 92-99)
interest_gulped(reserve, pre_update_liabilities, bstop_rate) ==
    gulp(reserve, bstop_rate, total_liabilities(reserve) - pre_update_liabilities)

\* mutant of lines 93-95: the new d_rate is rounded down
accrue_rate_rounded_down(reserve, bstop_rate, acc) ==
    IF reserve.b_supply = 0 THEN reserve
    ELSE IF utilization(reserve) = 0 THEN reserve
    ELSE interest_gulped(
             [reserve EXCEPT
                !.ir_mod = acc.ir_mod,
                !.d_rate = fixed_mul_floor(acc.loan_accrual, reserve.d_rate, SCALAR_9)],
             total_liabilities(reserve), bstop_rate)

\* mutant of lines 77-82: a reserve without utilization accrues as well
accrue_without_utilization(reserve, bstop_rate, acc) ==
    IF reserve.b_supply = 0 THEN reserve
    ELSE interest_gulped(
             [reserve EXCEPT
                !.ir_mod = acc.ir_mod,
                !.d_rate = fixed_mul_ceil(acc.loan_accrual, reserve.d_rate, SCALAR_9)],
             total_liabilities(reserve), bstop_rate)

\* lines 72-99 of load: nothing accrues without supply or utilization, else the
\* d_rate grows by the loan accrual and the interest is gulped
accrue(reserve, bstop_rate, acc) ==
    IF reserve.b_supply = 0 THEN reserve
    ELSE IF utilization(reserve) = 0 THEN reserve
    ELSE interest_gulped(
             [reserve EXCEPT
                !.ir_mod = acc.ir_mod,
                !.d_rate = fixed_mul_ceil(acc.loan_accrual, reserve.d_rate, SCALAR_9)],
             total_liabilities(reserve), bstop_rate)

\* mutant of load: the same-timestamp short circuit is missing
load_no_short_circuit(asset, cfg, data, timestamp, bstop_rate, acc) ==
    [accrue(reserve_of(asset, cfg, data), bstop_rate, acc) EXCEPT !.last_time = timestamp]

\* Reserve::load at ledger time `timestamp`; acc = (loan_accrual, new_ir_mod) is
\* what calc_accrual returns for this reserve (read only on the accrual path)
load(asset, cfg, data, timestamp, bstop_rate, acc) ==
    IF timestamp = data.last_time THEN reserve_of(asset, cfg, data)
    ELSE [accrue(reserve_of(asset, cfg, data), bstop_rate, acc)
            EXCEPT !.last_time = timestamp]

\* Reserve::store: the ReserveData written to the ledger
store(r) ==
    [d_rate |-> r.d_rate, b_rate |-> r.b_rate, ir_mod |-> r.ir_mod,
     b_supply |-> r.b_supply, d_supply |-> r.d_supply,
     backstop_credit |-> r.backstop_credit, last_time |-> r.last_time]

(***************************************************************************)
(* The ledger: addresses, reserves and the persisted state.                *)
(***************************************************************************)
\* e.current_contract_address()
Pool == "pool"
\* storage::get_backstop
Backstop == "backstop"
\* the flash-loan receiver contract
Receiver == "receiver"
Users == {"samwise", "frodo", "merry", "pippin"}
\* every address that may hold positions
Holders == Users \cup {Backstop, Pool}
\* every address that may hold tokens
Accounts == Users \cup {Pool, Receiver, Backstop}
\* the reserve list: the asset at reserve index i is asset i
Assets == {0, 1}
\* PoolConfig.max_positions, as the tests of submit.rs set it
MaxPositions == 2

VARIABLES
    now,          \* e.ledger().timestamp()
    bstop_rate,   \* PoolConfig.bstop_rate
    res_data,     \* storage: asset -> ReserveData
    positions,    \* storage: address -> Positions
    balances,     \* token contracts: asset -> (address -> balance)
    allowance,    \* token contracts: asset -> (owner -> allowance given to the pool)
    emis,         \* backstop storage: emission config and data of the pool, user data
    deposits,     \* backstop storage: PoolBalance, UserBalance of the depositors; claims paid
    pre,          \* the ledger as it was when the last operation began
    last,         \* what the last operation did
    calls         \* operations performed so far

vars ==
    <<now, bstop_rate, res_data, positions, balances, allowance, emis, deposits, pre, last,
      calls>>

\* the backstop before any deposit to the pool: no shares, nothing queued for
\* withdrawal, no depositor holds shares, and no claim has been paid
NoDeposits ==
    [pool |-> [shares |-> 0, q4w |-> 0],
     user |-> [u \in {"samwise", "frodo"} |-> [shares |-> 0]],
     claimed |-> 0]

\* storage::get_res_config: testutils::default_reserve_meta
res_config ==
    [a \in Assets |->
        [index |-> a, l_factor |-> (3 * SCALAR_7) \div 4, c_factor |-> (3 * SCALAR_7) \div 4,
         max_util |-> (95 * SCALAR_7) \div 100, scalar |-> SCALAR_7,
         collateral_cap |-> 1000000, enabled |-> TRUE]]

\* the oracle's price of each asset, oracle decimals = 7 (1.0 and 5.0 in the tests)
price == [a \in Assets |-> IF a = 0 THEN SCALAR_7 ELSE 5 * SCALAR_7]

(***************************************************************************)
(* soroban Map<K, V>: a function on the keys present.                      *)
(***************************************************************************)
EmptyMap == [k \in {} |-> 0]

\* Option<T>: None, or Some(v) whose value is Some(v)[1]
None == <<>>

Some(v) == <<v>>

map_get(m, k) == IF k \in DOMAIN m THEN m[k] ELSE 0

map_set(m, k, v) == [j \in (DOMAIN m) \cup {k} |-> IF j = k THEN v ELSE m[j]]

map_remove(m, k) == [j \in (DOMAIN m) \ {k} |-> m[j]]

RECURSIVE sorted_keys(_)
\* the keys of a set in ascending order, the order a Map is iterated in
sorted_keys(S) ==
    IF S = {} THEN <<>>
    ELSE LET k == CHOOSE x \in S : \A y \in S : x <= y
         IN <<k>> \o sorted_keys(S \ {k})

(***************************************************************************)
(* Token contracts (SEP-41): tok = [balances, allowance, log].  A call     *)
(* returns the token state after it and err = "" or the error it aborts    *)
(* with; log records the calls made, in order.                             *)
(***************************************************************************)
token_state == [balances |-> balances, allowance |-> allowance, log |-> <<>>, err |-> ""]

token_transfer(tok, asset, from, to, amount) ==
    IF tok.err # "" THEN tok
    ELSE IF amount < 0 THEN [tok EXCEPT !.err = "TokenNegative"]
    ELSE IF tok.balances[asset][from] < amount THEN [tok EXCEPT !.err = "TokenBalance"]
    ELSE [tok EXCEPT
            !.balances[asset] = [x \in Accounts |->
                tok.balances[asset][x] - (IF x = from THEN amount ELSE 0)
                                       + (IF x = to THEN amount ELSE 0)],
            !.log = Append(@, [asset |-> asset, from |-> from, to |-> to, amount |-> amount])]

\* transfer_from with the pool as spender
token_transfer_from(tok, asset, from, to, amount) ==
    IF tok.err # "" THEN tok
    ELSE IF amount < 0 THEN [tok EXCEPT !.err = "TokenNegative"]
    ELSE IF tok.allowance[asset][from] < amount THEN [tok EXCEPT !.err = "TokenAllowance"]
    ELSE LET t1 == token_transfer(tok, asset, from, to, amount)
         IN IF t1.err # "" THEN t1
            ELSE [t1 EXCEPT !.allowance[asset][from] = @ - amount]

(***************************************************************************)
(* User and Positions (pool/user.rs)                                       *)
(***************************************************************************)
EmptyPositions == [liabilities |-> EmptyMap, collateral |-> EmptyMap, supply |-> EmptyMap]

has_liabilities(u) == DOMAIN u.liabilities # {}

\* collateral and liability entries (Positions::effective_count)
effective_count(u) == Cardinality(DOMAIN u.collateral) + Cardinality(DOMAIN u.liabilities)

\* each of these returns the user and the reserve after the change, and err
add_liabilities(u, r, amount) ==
    [user |-> [u EXCEPT !.liabilities = map_set(@, r.index, map_get(@, r.index) + amount)],
     reserve |-> [r EXCEPT !.d_supply = @ + amount], err |-> ""]

remove_liabilities(u, r, amount) ==
    LET new_balance == map_get(u.liabilities, r.index) - amount
    IN [user |-> [u EXCEPT !.liabilities = IF new_balance = 0 THEN map_remove(@, r.index)
                                           ELSE map_set(@, r.index, new_balance)],
        reserve |-> [r EXCEPT !.d_supply = @ - amount],
        err |-> IF new_balance < 0 THEN "NegativeAmount" ELSE ""]

add_collateral(u, r, amount) ==
    [user |-> [u EXCEPT !.collateral = map_set(@, r.index, map_get(@, r.index) + amount)],
     reserve |-> [r EXCEPT !.b_supply = @ + amount], err |-> ""]

remove_collateral(u, r, amount) ==
    LET new_balance == map_get(u.collateral, r.index) - amount
    IN [user |-> [u EXCEPT !.collateral = IF new_balance = 0 THEN map_remove(@, r.index)
                                          ELSE map_set(@, r.index, new_balance)],
        reserve |-> [r EXCEPT !.b_supply = @ - amount],
        err |-> IF new_balance < 0 THEN "NegativeAmount" ELSE ""]

add_supply(u, r, amount) ==
    [user |-> [u EXCEPT !.supply = map_set(@, r.index, map_get(@, r.index) + amount)],
     reserve |-> [r EXCEPT !.b_supply = @ + amount], err |-> ""]

remove_supply(u, r, amount) ==
    LET new_balance == map_get(u.supply, r.index) - amount
    IN [user |-> [u EXCEPT !.supply = IF new_balance = 0 THEN map_remove(@, r.index)
                                      ELSE map_set(@, r.index, new_balance)],
        reserve |-> [r EXCEPT !.b_supply = @ - amount],
        err |-> IF new_balance < 0 THEN "NegativeAmount" ELSE ""]

(***************************************************************************)
(* Pool (pool/pool.rs): the reserve cache of one call, and the interest    *)
(* curve (pool/interest.rs).                                               *)
(***************************************************************************)
\* calc_accrual(config, cur_util, ir_mod, last_time) -> (loan_accrual, new_ir_mod):
\* a fixed curve, linear in utilization and in the elapsed time
calc_accrual(cfg, util, ir_mod, last_time) ==
    [loan_accrual |-> SCALAR_9 + (util * (now - last_time) * (SCALAR_9 \div SCALAR_7)) \div 10,
     ir_mod |-> IF util > cfg.max_util \div 2 THEN ir_mod + SCALAR_9 \div 10 ELSE ir_mod]

\* Pool::load: nothing cached, nothing to store
pool_load == [reserves |-> EmptyMap, reserves_to_store |-> {}]

\* Reserve::load of `asset` from storage at the current ledger time
storage_load_ok(asset) == load_ok(asset, res_config[asset], res_data[asset], now)

\* the utilization calc_accrual is given; it is read only when load accrues
cur_util(reserve) == IF utilization_ok(reserve) THEN utilization(reserve) ELSE 0

storage_load(asset) ==
    load(asset, res_config[asset], res_data[asset], now, bstop_rate,
         calc_accrual(res_config[asset],
                      cur_util(reserve_of(asset, res_config[asset], res_data[asset])),
                      res_data[asset].ir_mod, res_data[asset].last_time))

\* Pool::load_reserve(asset, store): the cached reserve, else the loaded one
load_reserve_ok(pool, asset) == asset \in DOMAIN pool.reserves \/ storage_load_ok(asset)

load_reserve(pool, asset) ==
    IF asset \in DOMAIN pool.reserves THEN pool.reserves[asset] ELSE storage_load(asset)

\* the `store` flag of load_reserve marks the asset to be written back
mark_to_store(pool, asset) == [pool EXCEPT !.reserves_to_store = @ \cup {asset}]

\* Pool::cache_reserve
cache_reserve(pool, reserve) ==
    [pool EXCEPT !.reserves = map_set(@, reserve.asset, reserve)]

\* Pool::store_cached_reserves aborts when a reserve to store was never cached
store_cached_reserves_err(pool) ==
    IF pool.reserves_to_store \subseteq DOMAIN pool.reserves THEN "" ELSE "InternalReserveNotFound"

\* the reserve data on the ledger after Pool::store_cached_reserves
store_cached_reserves(pool) ==
    [a \in Assets |-> IF a \in pool.reserves_to_store THEN store(pool.reserves[a])
                      ELSE res_data[a]]

\* Pool::require_under_max
require_under_max(u, prev_positions_count) ==
    IF effective_count(u) > MaxPositions /\ effective_count(u) > prev_positions_count
    THEN "MaxPositionsExceeded" ELSE ""

(***************************************************************************)
(* Actions and build_actions_from_request (pool/actions.rs).  A request is *)
(* [request_type, address, amount]; the builder threads                    *)
(* c = [err, pool, user, actions] through the requests in order.           *)
(***************************************************************************)
actions_new == [spender_transfer |-> EmptyMap, pool_transfer |-> EmptyMap, check_health |-> FALSE]

add_for_spender_transfer(actions, asset, amount) ==
    [actions EXCEPT !.spender_transfer = map_set(@, asset, map_get(@, asset) + amount)]

add_for_pool_transfer(actions, asset, amount) ==
    [actions EXCEPT !.pool_transfer = map_set(@, asset, map_get(@, asset) + amount)]

do_check_health(actions) == [actions EXCEPT !.check_health = TRUE]

\* the builder's state after one request took effect: `ur` is what the User
\* method returned, the reserve it changed is cached
request_done(c, pool, ur, actions, err) ==
    IF err # "" THEN [c EXCEPT !.err = err]
    ELSE IF ur.err # "" THEN [c EXCEPT !.err = ur.err]
    ELSE [err |-> "", pool |-> cache_reserve(pool, ur.reserve), user |-> ur.user,
          actions |-> actions]

\* one request applied to `reserve`, the reserve of request.address as
\* pool.load_reserve(address, true) returned it
apply_to_reserve(c, request, reserve, pool) ==
    LET asset == request.address
        amount == request.amount
        allowed == require_action_allowed(reserve, request.request_type)
    IN CASE request.request_type = Supply ->
              request_done(c, pool, add_supply(c.user, reserve, to_b_token_down(reserve, amount)),
                           add_for_spender_transfer(c.actions, asset, amount), allowed)
         [] request.request_type = SupplyCollateral ->
              request_done(c, pool,
                           add_collateral(c.user, reserve, to_b_token_down(reserve, amount)),
                           add_for_spender_transfer(c.actions, asset, amount), allowed)
         [] request.request_type = Withdraw ->
              LET cur_b_tokens == map_get(c.user.supply, reserve.index)
                  over == to_b_token_up(reserve, amount) > cur_b_tokens
                  to_burn == IF over THEN cur_b_tokens ELSE to_b_token_up(reserve, amount)
                  tokens_out == IF over THEN to_asset_from_b_token(reserve, cur_b_tokens)
                                ELSE amount
              IN request_done(c, pool, remove_supply(c.user, reserve, to_burn),
                              add_for_pool_transfer(c.actions, asset, tokens_out), "")
         [] request.request_type = WithdrawCollateral ->
              LET cur_b_tokens == map_get(c.user.collateral, reserve.index)
                  over == to_b_token_up(reserve, amount) > cur_b_tokens
                  to_burn == IF over THEN cur_b_tokens ELSE to_b_token_up(reserve, amount)
                  tokens_out == IF over THEN to_asset_from_b_token(reserve, cur_b_tokens)
                                ELSE amount
              IN request_done(c, pool, remove_collateral(c.user, reserve, to_burn),
                              do_check_health(add_for_pool_transfer(c.actions, asset, tokens_out)),
                              "")
         [] request.request_type = Borrow ->
              LET ur == add_liabilities(c.user, reserve, to_d_token_up(reserve, amount))
              IN request_done(c, pool, ur,
                              do_check_health(add_for_pool_transfer(c.actions, asset, amount)),
                              IF allowed # "" THEN allowed
                              ELSE require_utilization_below_max(ur.reserve))
         [] request.request_type = Repay ->
              LET cur_d_tokens == map_get(c.user.liabilities, reserve.index)
                  d_tokens_burnt == to_d_token_down(reserve, amount)
                  cur_underlying_borrowed == to_asset_from_d_token(reserve, cur_d_tokens)
              IN IF d_tokens_burnt > cur_d_tokens
                 THEN request_done(c, pool, remove_liabilities(c.user, reserve, cur_d_tokens),
                                   add_for_spender_transfer(c.actions, asset,
                                                            cur_underlying_borrowed),
                                   IF amount - cur_underlying_borrowed < 0
                                   THEN "NegativeAmount" ELSE "")
                 ELSE request_done(c, pool, remove_liabilities(c.user, reserve, d_tokens_burnt),
                                   add_for_spender_transfer(c.actions, asset, amount), "")

apply_request(c, request) ==
    IF c.err # "" THEN c
    ELSE IF request.amount < 0 THEN [c EXCEPT !.err = "NegativeAmount"]
    ELSE IF ~load_reserve_ok(c.pool, request.address) THEN [c EXCEPT !.err = "Arith"]
    ELSE apply_to_reserve(c, request, load_reserve(c.pool, request.address),
                          mark_to_store(c.pool, request.address))

RECURSIVE apply_requests(_, _)
apply_requests(c, requests) ==
    IF requests = <<>> THEN c
    ELSE apply_requests(apply_request(c, Head(requests)), Tail(requests))

\* the end of build_actions_from_request: pool.require_under_max
built_under_max(c, prev_positions_count) ==
    IF c.err # "" THEN c
    ELSE [c EXCEPT !.err = require_under_max(c.user, prev_positions_count)]

build_actions_from_request(pool, from_state, requests) ==
    built_under_max(apply_requests([err |-> "", pool |-> pool, user |-> from_state,
                                    actions |-> actions_new], requests),
                    effective_count(from_state))

(***************************************************************************)
(* PositionData (pool/health_factor.rs)                                    *)
(***************************************************************************)
\* one round of the loop: the position in `reserve` added to the totals
position_added(pd, reserve, b_token_balance, d_token_balance) ==
    LET asset_to_base == price[reserve.index]
        collateral ==
            IF b_token_balance > 0
            THEN fixed_mul_floor(asset_to_base,
                     to_effective_asset_from_b_token(reserve, b_token_balance),
                     reserve.scalar)
            ELSE 0
        liability ==
            IF d_token_balance > 0
            THEN fixed_mul_ceil(asset_to_base,
                     to_effective_asset_from_d_token(reserve, d_token_balance),
                     reserve.scalar)
            ELSE 0
    IN [pd EXCEPT !.collateral_base = @ + collateral,
                  !.liability_base = @ + liability,
                  !.pool = cache_reserve(pd.pool, reserve)]

RECURSIVE position_data_from(_, _, _)
\* the loop of calculate_from_positions over the reserve list, from index i on
position_data_from(pd, u, i) ==
    IF i \notin Assets \/ pd.err # "" THEN pd
    ELSE IF map_get(u.collateral, i) = 0 /\ map_get(u.liabilities, i) = 0
    THEN position_data_from(pd, u, i + 1)
    ELSE IF ~load_reserve_ok(pd.pool, i) THEN [pd EXCEPT !.err = "Arith"]
    ELSE position_data_from(
             position_added(pd, load_reserve(pd.pool, i), map_get(u.collateral, i),
                            map_get(u.liabilities, i)),
             u, i + 1)

\* PositionData::calculate_from_positions: the data, and the pool with the
\* reserves it loaded cached
calculate_from_positions(pool, u) ==
    position_data_from([collateral_base |-> 0, liability_base |-> 0, pool |-> pool,
                        err |-> ""], u, 0)

is_hf_under(pd, min) ==
    IF pd.liability_base = 0 THEN FALSE
    ELSE fixed_div_floor(pd.collateral_base, pd.liability_base, SCALAR_7) < min

(***************************************************************************)
(* submit.rs.  An operation returns what it did: err ("" or the error it   *)
(* aborted with), the ledger it leaves when it does not abort, and its     *)
(* intermediate results.  The host discards every effect of a call that    *)
(* aborts, token calls included.                                           *)
(***************************************************************************)
ledger_now ==
    [res_data |-> res_data, positions |-> positions,
     balances |-> balances, allowance |-> allowance, emis |-> emis,
     deposits |-> deposits]

\* the minimum health factor 1_0000100, i.e. 1.00001 in units of SCALAR_7, rounded
\* up to the precision of the model (submit.rs, lines 49 and 107)
min_hf == div_ceil(100001 * SCALAR_7, 100000)

\* what an operation reports when it aborts with `err` before anything was built
aborted(err) ==
    [err |-> err, built |-> FALSE, check_health |-> FALSE, has_liab |-> FALSE,
     hf_checked |-> FALSE, hf_under |-> FALSE, actions |-> actions_new, log |-> <<>>,
     user |-> EmptyPositions, minted |-> 0, util |-> 0, callback |-> FALSE,
     tok_err |-> "", ledger |-> ledger_now]

RECURSIVE sum_spender_transfers(_, _, _)
\* first loop of handle_transfer_with_allowance: net[token] -= amount
sum_spender_transfers(net_balances, actions, keys) ==
    IF keys = <<>> THEN net_balances
    ELSE sum_spender_transfers(
             map_set(net_balances, Head(keys),
                     map_get(net_balances, Head(keys)) - actions.spender_transfer[Head(keys)]),
             actions, Tail(keys))

RECURSIVE sum_pool_transfers(_, _, _)
\* second loop of handle_transfer_with_allowance: net[token] += amount
sum_pool_transfers(net_balances, actions, keys) ==
    IF keys = <<>> THEN net_balances
    ELSE sum_pool_transfers(
             map_set(net_balances, Head(keys),
                     map_get(net_balances, Head(keys)) + actions.pool_transfer[Head(keys)]),
             actions, Tail(keys))

\* mutant of the netting: what the pool owes is left out
net_balances_spender_only(actions) ==
    sum_spender_transfers(EmptyMap, actions, sorted_keys(DOMAIN actions.spender_transfer))

\* map of token -> amount: the pool owes when amount > 0, the spender when amount < 0
net_balances_of(actions) ==
    sum_pool_transfers(
        sum_spender_transfers(EmptyMap, actions, sorted_keys(DOMAIN actions.spender_transfer)),
        actions, sorted_keys(DOMAIN actions.pool_transfer))

RECURSIVE settle_net_paid_to_spender(_, _, _, _, _)
\* mutant of the third loop: what the pool owes is paid to the spender
settle_net_paid_to_spender(tok, net_balances, keys, spender, to) ==
    IF keys = <<>> THEN tok
    ELSE LET address == Head(keys)
             amount == net_balances[address]
             t1 == IF amount < 0
                   THEN token_transfer_from(tok, address, spender, Pool, -amount)
                   ELSE IF amount > 0
                   THEN token_transfer(tok, address, Pool, spender, amount)
                   ELSE tok
         IN settle_net_paid_to_spender(t1, net_balances, Tail(keys), spender, to)

RECURSIVE settle_net(_, _, _, _, _)
\* third loop of handle_transfer_with_allowance
settle_net(tok, net_balances, keys, spender, to) ==
    IF keys = <<>> THEN tok
    ELSE LET address == Head(keys)
             amount == net_balances[address]
             t1 == IF amount < 0
                   THEN token_transfer_from(tok, address, spender, Pool, -amount)
                   ELSE IF amount > 0
                   THEN token_transfer(tok, address, Pool, to, amount)
                   ELSE tok
         IN settle_net(t1, net_balances, Tail(keys), spender, to)

handle_transfer_with_allowance(tok, actions, spender, to) ==
    LET net_balances == net_balances_of(actions)
    IN settle_net(tok, net_balances, sorted_keys(DOMAIN net_balances), spender, to)

RECURSIVE pull_from_spender(_, _, _, _)
\* first loop of handle_transfers: transfer tokens from sender to pool
pull_from_spender(tok, actions, keys, spender) ==
    IF keys = <<>> THEN tok
    ELSE pull_from_spender(
             token_transfer(tok, Head(keys), spender, Pool, actions.spender_transfer[Head(keys)]),
             actions, Tail(keys), spender)

RECURSIVE push_from_pool(_, _, _, _)
\* second loop of handle_transfers: transfer tokens from pool to "to"
push_from_pool(tok, actions, keys, to) ==
    IF keys = <<>> THEN tok
    ELSE push_from_pool(
             token_transfer(tok, Head(keys), Pool, to, actions.pool_transfer[Head(keys)]),
             actions, Tail(keys), to)

handle_transfers(tok, actions, spender, to) ==
    push_from_pool(
        pull_from_spender(tok, actions, sorted_keys(DOMAIN actions.spender_transfer), spender),
        actions, sorted_keys(DOMAIN actions.pool_transfer), to)

\* mutant of the address check: only `from` is compared with the pool
submit_bad_request_from_only(from, spender, to) == from = Pool

\* execute_submit, lines 33-38
submit_bad_request(from, spender, to) == from = Pool \/ spender = Pool \/ to = Pool

\* mutant of the health gate: the minimum is 1.0, without the rounding buffer
submit_invalid_hf_below_one(actions, from_state, pd) ==
    actions.check_health /\ has_liabilities(from_state) /\ is_hf_under(pd, SCALAR_7)

\* execute_submit, lines 46-52
submit_invalid_hf(actions, from_state, pd) ==
    actions.check_health /\ has_liabilities(from_state) /\ is_hf_under(pd, min_hf)

\* mutant of the short-circuit: the health factor is computed whenever
\* check_health is raised
submit_loads_oracle_when_flagged(actions, from_state) == actions.check_health

\* whether lines 46-52 evaluate calculate_from_positions (&& short-circuits)
submit_loads_oracle(actions, from_state) ==
    actions.check_health /\ has_liabilities(from_state)

\* mutant of the stores: from_state.store is left out
stored_without_positions(pool, from, from_state, tok) ==
    [res_data |-> store_cached_reserves(pool), positions |-> positions,
     balances |-> tok.balances, allowance |-> tok.allowance, emis |-> emis,
     deposits |-> deposits]

\* the ledger after pool.store_cached_reserves and from_state.store
stored(pool, from, from_state, tok) ==
    [res_data |-> store_cached_reserves(pool),
     positions |-> [positions EXCEPT ![from] = from_state],
     balances |-> tok.balances, allowance |-> tok.allowance, emis |-> emis,
     deposits |-> deposits]

\* what an operation that built its actions reports, before it settles; pd is
\* the PositionData of the positions built, whether or not the code computes it
built_report(b, pd, checked) ==
    [err |-> "", built |-> TRUE, check_health |-> b.actions.check_health,
     has_liab |-> has_liabilities(b.user), hf_checked |-> checked,
     hf_under |-> pd.err = "" /\ is_hf_under(pd, min_hf),
     actions |-> b.actions, log |-> <<>>, user |-> b.user, minted |-> 0,
     util |-> 0, callback |-> FALSE, tok_err |-> "", ledger |-> ledger_now]

\* mutant of the settlement: a token call that fails is passed over, as with
\* try_transfer and its result dropped
submit_stored_despite_token_failure(r, pool, from, from_state, tok) ==
    IF store_cached_reserves_err(pool) # ""
    THEN [r EXCEPT !.err = store_cached_reserves_err(pool), !.log = tok.log,
                   !.tok_err = tok.err]
    ELSE [r EXCEPT !.log = tok.log, !.tok_err = tok.err,
                   !.ledger = stored(pool, from, from_state, tok)]

\* lines 54-64: the token calls went through, or one aborted and the call with
\* it; then the reserves and the positions are stored and returned.  tok_err is
\* the error of the token contract, log the token calls that had gone through.
submit_stored(r, pool, from, from_state, tok) ==
    IF tok.err # "" THEN [r EXCEPT !.err = tok.err, !.log = tok.log, !.tok_err = tok.err]
    ELSE IF store_cached_reserves_err(pool) # ""
    THEN [r EXCEPT !.err = store_cached_reserves_err(pool), !.log = tok.log]
    ELSE [r EXCEPT !.log = tok.log, !.ledger = stored(pool, from, from_state, tok)]

\* lines 46-58: the health gate, then the transfers under the chosen strategy
submit_checked(from, spender, to, use_allowance, b, pd, checked) ==
    IF checked /\ pd.err # "" THEN [built_report(b, pd, checked) EXCEPT !.err = pd.err]
    ELSE IF checked /\ submit_invalid_hf(b.actions, b.user, pd)
    THEN [built_report(b, pd, checked) EXCEPT !.err = "InvalidHf"]
    ELSE submit_stored(built_report(b, pd, checked), IF checked THEN pd.pool ELSE b.pool,
                       from, b.user,
                       IF use_allowance
                       THEN handle_transfer_with_allowance(token_state, b.actions, spender, to)
                       ELSE handle_transfers(token_state, b.actions, spender, to))

\* lines 42-52: the actions are built; && evaluates calculate_from_positions
\* only when check_health is raised and the user has liabilities
submit_built(from, spender, to, use_allowance, b) ==
    IF b.err # "" THEN aborted(b.err)
    ELSE submit_checked(from, spender, to, use_allowance, b,
                        calculate_from_positions(b.pool, b.user),
                        submit_loads_oracle(b.actions, b.user))

execute_submit(from, spender, to, requests, use_allowance) ==
    IF submit_bad_request(from, spender, to) THEN aborted("BadRequest")
    ELSE submit_built(from, spender, to, use_allowance,
                      build_actions_from_request(pool_load, positions[from], requests))

\* execute_submit_with_flash_loan, lines 75-77
flash_bad_request(from) == from = Pool

\* mutant of the flash-loan health gate: the health factor is not looked at
flash_hf_not_checked(from_state, pd) == FALSE

\* execute_submit_with_flash_loan, lines 105-110
flash_invalid_hf(from_state, pd) ==
    has_liabilities(from_state) /\ is_hf_under(pd, min_hf)

\* mutant of the flash-loan block: the utilization is not capped after the mint
flash_util_not_checked(reserve) == ""

\* the utilization check of the flash-loan block, line 87, on the reserve
\* right after the loan's d_tokens were minted
flash_util_err(reserve) == require_utilization_below_max(reserve)

\* the flash-loan block, lines 83-97, on the reserve pool.load_reserve returned:
\* mints the loan's d_tokens to from_state.  The block's reserve is marked to
\* store but dropped without cache_reserve.
flash_minted(pool, ur, flash_loan, d_tokens_minted) ==
    [pool |-> mark_to_store(pool, flash_loan.asset), user |-> ur.user,
     minted |-> d_tokens_minted, reserve |-> ur.reserve, util |-> cur_util(ur.reserve),
     err |-> flash_util_err(ur.reserve)]

flash_mint_in(pool, from_state, flash_loan, reserve) ==
    flash_minted(pool,
                 add_liabilities(from_state, reserve, to_d_token_up(reserve, flash_loan.amount)),
                 flash_loan, to_d_token_up(reserve, flash_loan.amount))

flash_mint(pool, from_state, flash_loan) ==
    flash_mint_in(pool, from_state, flash_loan, load_reserve(pool, flash_loan.asset))

\* FlashLoanClient::exec_op: the receiver contract is arbitrary code; it may
\* keep the loan ("keep"), hand it to `caller` ("forward"), or abort ("panic").
\* It may also call the pool, itself or through another contract: the host
\* refuses to enter a contract that is on the call stack, so the inner call
\* does nothing; the failure aborts the receiver ("reenter") unless the
\* receiver made the call with try_call and goes on ("reenter_caught")
exec_op(tok, behaviour, caller, asset, amount) ==
    IF tok.err # "" THEN tok
    ELSE IF behaviour = "panic" THEN [tok EXCEPT !.err = "ReceiverAbort"]
    ELSE IF behaviour = "reenter" THEN [tok EXCEPT !.err = "ContractReentry"]
    ELSE IF behaviour = "forward" THEN token_transfer(tok, asset, Receiver, caller, amount)
    ELSE tok

\* mutant of lines 132-138: the positions are loaded again after the callback
\* and stored as read
flash_stored_positions_reloaded(r, pool, from, from_state, actions, t2) ==
    IF t2.err # "" THEN [r EXCEPT !.err = t2.err, !.log = t2.log, !.tok_err = t2.err]
    ELSE submit_stored(r, pool, from, positions[from],
                       handle_transfer_with_allowance(t2, actions, from, from))

\* lines 132-138: the callback returned (or a token call or the callback
\* aborted); settle against the allowance, store and return
flash_stored(r, pool, from, from_state, actions, t2) ==
    IF t2.err # "" THEN [r EXCEPT !.err = t2.err, !.log = t2.log, !.tok_err = t2.err]
    ELSE submit_stored(r, pool, from, from_state,
                       handle_transfer_with_allowance(t2, actions, from, from))

\* mutant of lines 114-125: the receiver is called before the principal is sent
flash_called_receiver_first(r, pool, from, flash_loan, b, behaviour, t1) ==
    flash_stored([r EXCEPT !.callback = TRUE], pool, from, b.user, b.actions,
                 token_transfer(exec_op(token_state, behaviour, from, flash_loan.asset,
                                        flash_loan.amount),
                                flash_loan.asset, Pool, flash_loan.contract,
                                flash_loan.amount))

\* lines 114-125: the principal goes out, then the receiver is called
flash_called(r, pool, from, flash_loan, b, behaviour, t1) ==
    flash_stored([r EXCEPT !.callback = (t1.err = "")], pool, from, b.user, b.actions,
                 exec_op(t1, behaviour, from, flash_loan.asset, flash_loan.amount))

\* lines 105-125: the health gate, then the outbound transfer
flash_checked(from, flash_loan, behaviour, m, b, pd, checked) ==
    IF checked /\ pd.err # ""
    THEN [built_report(b, pd, checked) EXCEPT !.err = pd.err, !.minted = m.minted,
                                              !.util = m.util]
    ELSE IF checked /\ flash_invalid_hf(b.user, pd)
    THEN [built_report(b, pd, checked) EXCEPT !.err = "InvalidHf", !.minted = m.minted,
                                              !.util = m.util]
    ELSE flash_called([built_report(b, pd, checked) EXCEPT !.minted = m.minted,
                                                           !.util = m.util],
                      IF checked THEN pd.pool ELSE b.pool, from, flash_loan, b, behaviour,
                      token_transfer(token_state, flash_loan.asset, Pool,
                                     flash_loan.contract, flash_loan.amount))

\* lines 101-110: the actions are built; calculate_from_positions is evaluated
\* whenever the user has liabilities
flash_built(from, flash_loan, behaviour, m, b) ==
    IF b.err # "" THEN [aborted(b.err) EXCEPT !.minted = m.minted, !.util = m.util]
    ELSE flash_checked(from, flash_loan, behaviour, m, b,
                       calculate_from_positions(b.pool, b.user), has_liabilities(b.user))

\* lines 83-101: the loan is minted and capped, then the requests are built
flash_loaned(from, flash_loan, requests, behaviour, m) ==
    IF m.err # "" THEN [aborted(m.err) EXCEPT !.minted = m.minted, !.util = m.util]
    ELSE flash_built(from, flash_loan, behaviour, m,
                     build_actions_from_request(m.pool, m.user, requests))

execute_submit_with_flash_loan(from, flash_loan, requests, behaviour) ==
    IF flash_bad_request(from) THEN aborted("BadRequest")
    ELSE IF ~load_reserve_ok(pool_load, flash_loan.asset) THEN aborted("Arith")
    ELSE flash_loaned(from, flash_loan, requests, behaviour,
                      flash_mint(pool_load, positions[from], flash_loan))

(***************************************************************************)
(* bad_debt.rs                                                             *)
(***************************************************************************)
\* mutant of the bad-debt precondition: collateral is not looked at
bad_debt_bad_request_ignores_collateral(user, user_state) ==
    user = Backstop \/ DOMAIN user_state.liabilities = {}

\* transfer_bad_debt_to_backstop, lines 20-28
bad_debt_bad_request(user, user_state) ==
    \/ user = Backstop
    \/ DOMAIN user_state.collateral # {}
    \/ DOMAIN user_state.liabilities = {}

\* mutant of the loop: the liability leaves the user but the backstop's new
\* state is dropped
liability_removed_backstop_dropped(c, reserve_index, liability_balance, backstop_state, d) ==
    [pool |-> cache_reserve(mark_to_store(c.pool, reserve_index), d.reserve),
     user |-> d.user, backstop |-> c.backstop, err |-> d.err,
     moved |-> Append(c.moved, [index |-> reserve_index, amount |-> liability_balance])]

\* one round of the loop of lines 37-45: add to the backstop, remove from the
\* user, cache the reserve; c = [pool, user, backstop, err, moved]
liability_removed(c, reserve_index, liability_balance, backstop_state, d) ==
    [pool |-> cache_reserve(mark_to_store(c.pool, reserve_index), d.reserve),
     user |-> d.user, backstop |-> backstop_state, err |-> d.err,
     moved |-> Append(c.moved, [index |-> reserve_index, amount |-> liability_balance])]

\* mutant of lines 40-42: the liability is removed on a reserve loaded anew,
\* which does not hold the d_tokens just added for the backstop
liability_added_reserve_reloaded(c, reserve_index, liability_balance, a) ==
    liability_removed(c, reserve_index, liability_balance, a.user,
                      remove_liabilities(c.user, load_reserve(c.pool, reserve_index),
                                         liability_balance))

\* lines 40-41: the backstop has the liability, now the user loses it
liability_added(c, reserve_index, liability_balance, a) ==
    liability_removed(c, reserve_index, liability_balance, a.user,
                      remove_liabilities(c.user, a.reserve, liability_balance))

move_liability(c, reserve_index, liability_balance) ==
    IF ~load_reserve_ok(c.pool, reserve_index) THEN [c EXCEPT !.err = "Arith"]
    ELSE liability_added(c, reserve_index, liability_balance,
                         add_liabilities(c.backstop, load_reserve(c.pool, reserve_index),
                                         liability_balance))

RECURSIVE move_liabilities(_, _, _)
\* the loop of lines 37-45 over user_state.positions.liabilities
move_liabilities(c, user_state, keys) ==
    IF keys = <<>> \/ c.err # "" THEN c
    ELSE move_liabilities(move_liability(c, Head(keys), user_state.liabilities[Head(keys)]),
                          user_state, Tail(keys))

\* lines 47-49: the reserves, the backstop and the user are stored
bad_debt_stored(user, c) ==
    IF c.err # "" THEN [err |-> c.err, moved |-> c.moved, ledger |-> ledger_now]
    ELSE [err |-> "", moved |-> c.moved,
          ledger |-> [ledger_now EXCEPT
                        !.res_data = store_cached_reserves(c.pool),
                        !.positions = [positions EXCEPT ![Backstop] = c.backstop,
                                                        ![user] = c.user]]]

transfer_bad_debt_to_backstop(user) ==
    IF bad_debt_bad_request(user, positions[user])
    THEN [err |-> "BadRequest", moved |-> <<>>, ledger |-> ledger_now]
    ELSE bad_debt_stored(user,
             move_liabilities([pool |-> pool_load, user |-> positions[user],
                               backstop |-> positions[Backstop], err |-> "",
                               moved |-> <<>>],
                              positions[user], sorted_keys(DOMAIN positions[user].liabilities)))

(***************************************************************************)
(* backstop/src/emissions/distributor.rs.  st = [emis, err] is the         *)
(* backstop's emission storage as the call has written it so far, and the  *)
(* error it aborted with.                                                  *)
(***************************************************************************)
\* mutant of set_user_emissions: a claim returns the accrued amount and leaves it stored
set_user_emissions_claim_not_reset(st, user, index, accrued, to_claim) ==
    [st |-> [st EXCEPT !.emis.user[user] = Some([index |-> index, accrued |-> accrued])],
     returned |-> IF to_claim THEN accrued ELSE 0]

\* mutant of set_user_emissions: the stored index is one past the pool's
set_user_emissions_index_ahead(st, user, index, accrued, to_claim) ==
    IF to_claim
    THEN [st |-> [st EXCEPT !.emis.user[user] = Some([index |-> index + 1, accrued |-> 0])],
          returned |-> accrued]
    ELSE [st |-> [st EXCEPT !.emis.user[user] = Some([index |-> index + 1, accrued |-> accrued])],
          returned |-> 0]

\* set_user_emissions: stores the user's data, returns what is to be sent
set_user_emissions(st, user, index, accrued, to_claim) ==
    IF to_claim
    THEN [st |-> [st EXCEPT !.emis.user[user] = Some([index |-> index, accrued |-> 0])],
          returned |-> accrued]
    ELSE [st |-> [st EXCEPT !.emis.user[user] = Some([index |-> index, accrued |-> accrued])],
          returned |-> 0]

\* mutant of lines 121-136: the accrual starts from zero, not from user_data.accrued
update_user_previous_accrued_dropped(st, user, emis_data, user_balance, to_claim, user_data) ==
    IF user_data.index # emis_data.index \/ to_claim
    THEN IF user_balance.shares # 0
         THEN IF emis_data.index - user_data.index < 0
              THEN [st |-> [st EXCEPT !.err = "NegativeAmountError"], returned |-> 0]
              ELSE set_user_emissions(st, user, emis_data.index,
                       fixed_mul_floor(user_balance.shares,
                                       emis_data.index - user_data.index, SCALAR_7),
                       to_claim)
         ELSE set_user_emissions(st, user, emis_data.index, 0, to_claim)
    ELSE [st |-> st, returned |-> 0]

\* mutant of lines 127-129: the user's share of the index delta is rounded up
update_user_with_data_rounded_up(st, user, emis_data, user_balance, to_claim, user_data) ==
    IF user_data.index # emis_data.index \/ to_claim
    THEN IF user_balance.shares # 0
         THEN IF emis_data.index - user_data.index < 0
              THEN [st |-> [st EXCEPT !.err = "NegativeAmountError"], returned |-> 0]
              ELSE set_user_emissions(st, user, emis_data.index,
                       user_data.accrued
                         + fixed_mul_ceil(user_balance.shares,
                                          emis_data.index - user_data.index, SCALAR_7),
                       to_claim)
         ELSE set_user_emissions(st, user, emis_data.index, user_data.accrued, to_claim)
    ELSE [st |-> st, returned |-> 0]

\* mutant of lines 124-126: a negative index delta is accrued, not refused
update_user_with_data_negative_delta_accrued(st, user, emis_data, user_balance, to_claim, user_data) ==
    IF user_data.index # emis_data.index \/ to_claim
    THEN IF user_balance.shares # 0
         THEN set_user_emissions(st, user, emis_data.index,
                  user_data.accrued
                    + fixed_mul_floor(user_balance.shares,
                                      emis_data.index - user_data.index, SCALAR_7),
                  to_claim)
         ELSE set_user_emissions(st, user, emis_data.index, user_data.accrued, to_claim)
    ELSE [st |-> st, returned |-> 0]

\* mutant of line 130: the user's record keeps the index it had
update_user_with_data_index_not_advanced(st, user, emis_data, user_balance, to_claim, user_data) ==
    IF user_data.index # emis_data.index \/ to_claim
    THEN IF user_balance.shares # 0
         THEN IF emis_data.index - user_data.index < 0
              THEN [st |-> [st EXCEPT !.err = "NegativeAmountError"], returned |-> 0]
              ELSE set_user_emissions(st, user, user_data.index,
                       user_data.accrued
                         + fixed_mul_floor(user_balance.shares,
                                           emis_data.index - user_data.index, SCALAR_7),
                       to_claim)
         ELSE set_user_emissions(st, user, user_data.index, user_data.accrued, to_claim)
    ELSE [st |-> st, returned |-> 0]

\* lines 121-136: the user has emission data
update_user_with_data(st, user, emis_data, user_balance, to_claim, user_data) ==
    IF user_data.index # emis_data.index \/ to_claim
    THEN IF user_balance.shares # 0
         THEN IF emis_data.index - user_data.index < 0
              THEN [st |-> [st EXCEPT !.err = "NegativeAmountError"], returned |-> 0]
              ELSE set_user_emissions(st, user, emis_data.index,
                       user_data.accrued
                         + fixed_mul_floor(user_balance.shares,
                                           emis_data.index - user_data.index, SCALAR_7),
                       to_claim)
         ELSE set_user_emissions(st, user, emis_data.index, user_data.accrued, to_claim)
    ELSE [st |-> st, returned |-> 0]

\* mutant of lines 139-146: a user without a record starts with nothing accrued
update_user_emissions_no_catch_up(st, user, emis_data, user_balance, to_claim) ==
    IF st.emis.user[user] # None
    THEN update_user_with_data(st, user, emis_data, user_balance, to_claim,
                               st.emis.user[user][1])
    ELSE set_user_emissions(st, user, emis_data.index, 0, to_claim)

\* update_user_emissions, lines 113-147
update_user_emissions(st, user, emis_data, user_balance, to_claim) ==
    IF st.emis.user[user] # None
    THEN update_user_with_data(st, user, emis_data, user_balance, to_claim,
                               st.emis.user[user][1])
    ELSE IF user_balance.shares = 0
    THEN set_user_emissions(st, user, emis_data.index, 0, to_claim)
    ELSE set_user_emissions(st, user, emis_data.index,
                            fixed_mul_floor(user_balance.shares, emis_data.index, SCALAR_7),
                            to_claim)

\* mutant of lines 97-105: the additional index is subtracted
emission_data_accrued_index_lowered(st, emis_data, emis_config, max_timestamp, unqueued_shares) ==
    IF unqueued_shares < 0 THEN [st |-> [st EXCEPT !.err = "NegativeAmountError"], data |-> emis_data]
    ELSE IF max_timestamp < emis_data.last_time
    THEN [st |-> [st EXCEPT !.err = "Arith"], data |-> emis_data]
    ELSE IF unqueued_shares = 0 THEN [st |-> [st EXCEPT !.err = "Arith"], data |-> emis_data]
    ELSE LET new_data ==
                 [index |-> emis_data.index
                              - fixed_div_floor((max_timestamp - emis_data.last_time)
                                                  * emis_config.eps,
                                                unqueued_shares, SCALAR_7),
                  last_time |-> now]
         IN [st |-> [st EXCEPT !.emis.data = Some(new_data)], data |-> new_data]

\* mutant of line 102: the index grows and last_time stays as stored
emission_data_accrued_last_time_kept(st, emis_data, emis_config, max_timestamp, unqueued_shares) ==
    IF unqueued_shares < 0 THEN [st |-> [st EXCEPT !.err = "NegativeAmountError"], data |-> emis_data]
    ELSE IF max_timestamp < emis_data.last_time
    THEN [st |-> [st EXCEPT !.err = "Arith"], data |-> emis_data]
    ELSE IF unqueued_shares = 0 THEN [st |-> [st EXCEPT !.err = "Arith"], data |-> emis_data]
    ELSE LET new_data ==
                 [index |-> fixed_div_floor((max_timestamp - emis_data.last_time)
                                              * emis_config.eps,
                                            unqueued_shares, SCALAR_7)
                              + emis_data.index,
                  last_time |-> emis_data.last_time]
         IN [st |-> [st EXCEPT !.emis.data = Some(new_data)], data |-> new_data]

\* lines 96-105: the index grows by the emissions since last_time per unqueued share.
\* require_nonnegative aborts on negative unqueued shares; the u64 subtraction
\* max_timestamp - last_time aborts on underflow ("attempt to subtract with
\* overflow", as test_update_emissions_negative_time_dif expects); fixed_div_floor
\* by zero shares returns None, on which unwrap_optimized aborts
emission_data_accrued(st, emis_data, emis_config, max_timestamp, unqueued_shares) ==
    IF unqueued_shares < 0 THEN [st |-> [st EXCEPT !.err = "NegativeAmountError"], data |-> emis_data]
    ELSE IF max_timestamp < emis_data.last_time
    THEN [st |-> [st EXCEPT !.err = "Arith"], data |-> emis_data]
    ELSE IF unqueued_shares = 0 THEN [st |-> [st EXCEPT !.err = "Arith"], data |-> emis_data]
    ELSE LET new_data ==
                 [index |-> fixed_div_floor((max_timestamp - emis_data.last_time)
                                              * emis_config.eps,
                                            unqueued_shares, SCALAR_7)
                              + emis_data.index,
                  last_time |-> now]
         IN [st |-> [st EXCEPT !.emis.data = Some(new_data)], data |-> new_data]

\* mutant of line 95: shares queued for withdrawal stay in the denominator
emission_data_with_data_q4w_counted(st, pool_balance, emis_config, emis_data) ==
    IF \/ emis_data.last_time >= emis_config.expiration
       \/ now = emis_data.last_time
       \/ emis_config.eps = 0
       \/ pool_balance.shares = 0
    THEN [st |-> st, data |-> emis_data]
    ELSE emission_data_accrued(st, emis_data, emis_config,
                               IF now > emis_config.expiration THEN emis_config.expiration
                               ELSE now,
                               pool_balance.shares)

\* mutant of lines 80-87: the early return stores the data with last_time refreshed
emission_data_with_data_last_time_refreshed(st, pool_balance, emis_config, emis_data) ==
    IF \/ emis_data.last_time >= emis_config.expiration
       \/ now = emis_data.last_time
       \/ emis_config.eps = 0
       \/ pool_balance.shares = 0
    THEN [st |-> [st EXCEPT !.emis.data = Some([emis_data EXCEPT !.last_time = now])],
          data |-> [emis_data EXCEPT !.last_time = now]]
    ELSE emission_data_accrued(st, emis_data, emis_config,
                               IF now > emis_config.expiration THEN emis_config.expiration
                               ELSE now,
                               pool_balance.shares - pool_balance.q4w)

\* mutant of lines 89-93: the index accrues up to the ledger time, past the expiration
emission_data_with_data_past_expiration(st, pool_balance, emis_config, emis_data) ==
    IF \/ emis_data.last_time >= emis_config.expiration
       \/ now = emis_data.last_time
       \/ emis_config.eps = 0
       \/ pool_balance.shares = 0
    THEN [st |-> st, data |-> emis_data]
    ELSE emission_data_accrued(st, emis_data, emis_config, now,
                               pool_balance.shares - pool_balance.q4w)

\* mutant of line 80: a last_time past the expiration is refused as corrupted
emission_data_with_data_expired_refused(st, pool_balance, emis_config, emis_data) ==
    IF emis_data.last_time > emis_config.expiration
    THEN [st |-> [st EXCEPT !.err = "Arith"], data |-> emis_data]
    ELSE IF \/ emis_data.last_time >= emis_config.expiration
       \/ now = emis_data.last_time
       \/ emis_config.eps = 0
       \/ pool_balance.shares = 0
    THEN [st |-> st, data |-> emis_data]
    ELSE emission_data_accrued(st, emis_data, emis_config,
                               IF now > emis_config.expiration THEN emis_config.expiration
                               ELSE now,
                               pool_balance.shares - pool_balance.q4w)

\* lines 80-95, with the stored data read
emission_data_with_data(st, pool_balance, emis_config, emis_data) ==
    IF \/ emis_data.last_time >= emis_config.expiration
       \/ now = emis_data.last_time
       \/ emis_config.eps = 0
       \/ pool_balance.shares = 0
    THEN [st |-> st, data |-> emis_data]
    ELSE emission_data_accrued(st, emis_data, emis_config,
                               IF now > emis_config.expiration THEN emis_config.expiration
                               ELSE now,
                               pool_balance.shares - pool_balance.q4w)

update_emission_data_with_config(st, pool_balance, emis_config) ==
    IF st.emis.data = None
    THEN [st |-> [st EXCEPT !.err = "Arith"], data |-> [index |-> 0, last_time |-> 0]]
    ELSE emission_data_with_data(st, pool_balance, emis_config, st.emis.data[1])

\* update_emission_data returned Some(emis_data): the user is updated
emissions_updated(d, user_id, user_balance, to_claim) ==
    IF d.st.err # "" THEN [st |-> d.st, returned |-> 0]
    ELSE update_user_emissions(d.st, user_id, d.data, user_balance, to_claim)

\* mutant of update_emission_data: without a config the user is registered at index 0
emissions_call_registers_without_config(st, pool_balance, user_id, user_balance, to_claim) ==
    IF st.emis.config = None THEN set_user_emissions(st, user_id, 0, 0, to_claim)
    ELSE emissions_updated(
             update_emission_data_with_config(st, pool_balance, st.emis.config[1]),
             user_id, user_balance, to_claim)

\* update_emissions and claim_emissions: to_claim tells them apart
emissions_call(st, pool_balance, user_id, user_balance, to_claim) ==
    IF st.emis.config = None THEN [st |-> st, returned |-> 0]
    ELSE emissions_updated(
             update_emission_data_with_config(st, pool_balance, st.emis.config[1]),
             user_id, user_balance, to_claim)

\* what the operation reports: err, the amount returned, and the ledger it leaves
emissions_report(c) ==
    [err |-> c.st.err, returned |-> c.returned,
     ledger |-> [ledger_now EXCEPT !.emis = c.st.emis]]

update_emissions(pool_balance, user_id, user_balance) ==
    emissions_report(emissions_call([emis |-> emis, err |-> ""], pool_balance, user_id,
                                    user_balance, FALSE))

claim_emissions(pool_balance, user_id, user_balance) ==
    emissions_report(emissions_call([emis |-> emis, err |-> ""], pool_balance, user_id,
                                    user_balance, TRUE))

(***************************************************************************)
(* The pool as a state machine: one action per public operation.           *)
(***************************************************************************)
Request(request_type, address, amount) ==
    [request_type |-> request_type, address |-> address, amount |-> amount]

\* the batches submitted: healthy and unhealthy borrows, a borrow that leaves the
\* health factor at exactly 1.0, a supply and a borrow of
\* one asset, a borrow repaid in the same batch, a batch whose second transfer
\* cannot be paid, withdrawals, a repayment, a borrow past max_util, a negative
\* amount, and the empty batch
SubmitBatches ==
    { <<Request(SupplyCollateral, 0, 2000), Request(Borrow, 1, 200)>>,
      <<Request(SupplyCollateral, 0, 2000), Request(Borrow, 1, 400)>>,
      <<Request(SupplyCollateral, 0, 2667), Request(Borrow, 1, 300)>>,
      <<Request(SupplyCollateral, 0, 2000), Request(Borrow, 0, 500)>>,
      <<Request(Borrow, 1, 200), Request(Repay, 1, 300)>>,
      <<Request(SupplyCollateral, 0, 2000), Request(Supply, 1, 2000)>>,
      <<Request(Withdraw, 0, 300)>>,
      <<Request(WithdrawCollateral, 0, 1000)>>,
      <<Request(WithdrawCollateral, 0, 1500)>>,
      <<Request(Repay, 1, 50)>>,
      <<Request(Borrow, 1, 2400)>>,
      <<Request(Supply, 0, -1)>>,
      <<>> }

\* (from, spender, to, requests) of the calls to submit
SubmitCalls ==
    ({<<"samwise", "samwise", "samwise">>, <<"samwise", "frodo", "merry">>} \X SubmitBatches)
    \cup ({<<Pool, "samwise", "samwise">>, <<"samwise", Pool, "samwise">>,
           <<"samwise", "samwise", Pool>>}
          \X {<<Request(SupplyCollateral, 0, 2000), Request(Borrow, 1, 200)>>})

FlashLoan(contract, asset, amount) ==
    [contract |-> contract, asset |-> asset, amount |-> amount]

\* (from, flash_loan, requests) of the calls to submit with a flash loan
FlashCalls ==
    { <<"samwise", FlashLoan(Receiver, 0, 2500), <<Request(SupplyCollateral, 1, 1000)>> >>,
      <<"samwise", FlashLoan(Receiver, 0, 2500), <<Request(SupplyCollateral, 1, 200)>> >>,
      <<"samwise", FlashLoan(Receiver, 0, 2500), <<Request(Repay, 0, 2600)>> >>,
      <<"samwise", FlashLoan(Receiver, 0, 4600), <<Request(Supply, 0, 5000)>> >>,
      <<"samwise", FlashLoan(Receiver, 0, 4600), <<>> >>,
      <<"samwise", FlashLoan(Receiver, 0, 0), <<>> >>,
      <<Pool, FlashLoan(Receiver, 0, 2500), <<Request(SupplyCollateral, 1, 1000)>> >> }

ReceiverBehaviours == {"keep", "forward", "panic", "reenter", "reenter_caught"}

\* the positions samwise may start with
SamwisePositions ==
    { EmptyPositions,
      [liabilities |-> (1 :> 100), collateral |-> (0 :> 2000), supply |-> (0 :> 500)] }

\* the emission storage of the pool: no emissions configured; emissions of
\* 0.1 tokens a second that expire at time 1, updated at time 0, with samwise
\* behind the index and frodo not yet registered; or the same emissions
\* expiring at time 5, with frodo registered at the current index
EmissionStates ==
    { [config |-> None, data |-> None, user |-> [u \in Users |-> None]],
      [config |-> Some([expiration |-> 1, eps |-> SCALAR_7 \div 10]),
       data |-> Some([index |-> 22, last_time |-> 0]),
       user |-> [u \in Users |-> IF u = "samwise" THEN Some([index |-> 11, accrued |-> 3])
                                ELSE None]],
      [config |-> Some([expiration |-> 5, eps |-> SCALAR_7 \div 10]),
       data |-> Some([index |-> 22, last_time |-> 0]),
       user |-> [u \in Users |-> IF u = "samwise" THEN Some([index |-> 11, accrued |-> 3])
                                ELSE IF u = "frodo" THEN Some([index |-> 22, accrued |-> 7])
                                ELSE None]] }

\* (pool_balance, user, user_balance) of the calls to update and claim emissions:
\* a pool with and without queued shares, an empty pool, a pool whose shares are
\* all queued, and a balance with more queued than held
EmissionCalls ==
    { [shares |-> 1500, q4w |-> 0], [shares |-> 1500, q4w |-> 500], [shares |-> 0, q4w |-> 0],
      [shares |-> 1500, q4w |-> 1500], [shares |-> 1000, q4w |-> 1500] }
    \X { <<"samwise", [shares |-> 90]>>, <<"frodo", [shares |-> 90]>>,
         <<"frodo", [shares |-> 0]>> }

\* what `last` holds before any operation
idle ==
    [op |-> "none", err |-> "", from |-> Pool, spender |-> Pool, to |-> Pool,
     use_allowance |-> FALSE, requests |-> <<>>, flash_loan |-> FlashLoan(Receiver, 0, 0),
     built |-> FALSE, check_health |-> FALSE, has_liab |-> FALSE, hf_checked |-> FALSE,
     hf_under |-> FALSE, actions |-> actions_new, log |-> <<>>, user |-> EmptyPositions,
     minted |-> 0, util |-> 0, callback |-> FALSE, moved |-> <<>>, time |-> 0,
     tok_err |-> "", returned |-> 0, pool_balance |-> [shares |-> 0, q4w |-> 0],
     user_balance |-> [shares |-> 0], reentered |-> FALSE,
     prev |-> [op |-> "none", time |-> 0, from |-> Pool, err |-> "", returned |-> 0,
               pool_balance |-> [shares |-> 0, q4w |-> 0], user_balance |-> [shares |-> 0],
               emis |-> None]]

Init ==
    /\ now = 0
    /\ bstop_rate = SCALAR_7 \div 10
    /\ res_data =
         [a \in Assets |->
            [d_rate |-> IF a = 0 THEN (11 * SCALAR_9) \div 10 ELSE SCALAR_9,
             b_rate |-> IF a = 0 THEN (105 * SCALAR_9) \div 100 ELSE SCALAR_9,
             ir_mod |-> SCALAR_9, b_supply |-> 10000,
             d_supply |-> IF a = 0 THEN 5000 ELSE 7500,
             backstop_credit |-> 0, last_time |-> 0]]
    /\ \E s \in SamwisePositions :
         positions =
           [h \in Holders |->
              CASE h = "samwise" -> s
                [] h = Backstop -> [EmptyPositions EXCEPT !.liabilities = (0 :> 300)]
                [] h = "pippin" -> [EmptyPositions EXCEPT !.liabilities = (0 :> 400) @@ (1 :> 500)]
                [] h = "merry" -> [EmptyPositions EXCEPT !.liabilities = (1 :> 100),
                                                         !.collateral = (0 :> 100)]
                [] OTHER -> EmptyPositions]
    /\ balances =
         [a \in Assets |-> [x \in Accounts |->
            CASE x = Pool -> IF a = 0 THEN 5000 ELSE 2500
              [] x = "samwise" -> IF a = 0 THEN 10000 ELSE 1000
              [] x = "frodo" -> IF a = 0 THEN 10000 ELSE 0
              [] OTHER -> 0]]
    /\ allowance =
         [a \in Assets |-> [x \in Accounts |->
            CASE x = "samwise" -> IF a = 0 THEN 3000 ELSE 1000
              [] x = "frodo" -> IF a = 0 THEN 1000 ELSE 0
              [] OTHER -> 0]]
    /\ emis \in EmissionStates
    /\ deposits = NoDeposits
    /\ pre = [res_data |-> res_data, positions |-> positions,
              balances |-> balances, allowance |-> allowance, emis |-> emis,
              deposits |-> deposits]
    /\ last = idle
    /\ calls = 0

\* the host commits the ledger an operation leaves, or nothing when it aborted
Commit(r) ==
    /\ res_data' = IF r.err = "" THEN r.ledger.res_data ELSE res_data
    /\ positions' = IF r.err = "" THEN r.ledger.positions ELSE positions
    /\ balances' = IF r.err = "" THEN r.ledger.balances ELSE balances
    /\ allowance' = IF r.err = "" THEN r.ledger.allowance ELSE allowance
    /\ emis' = IF r.err = "" THEN r.ledger.emis ELSE emis
    /\ deposits' = IF r.err = "" THEN r.ledger.deposits ELSE deposits
    /\ pre' = ledger_now
    /\ calls' = calls + 1
    /\ UNCHANGED <<now, bstop_rate>>

\* a submit returned r: the host commits, and `last` holds what the call did
Submitted(call, r) ==
    /\ Commit(r)
    /\ last' = [call EXCEPT
         !.err = r.err, !.built = r.built, !.check_health = r.check_health,
         !.has_liab = r.has_liab, !.hf_checked = r.hf_checked, !.hf_under = r.hf_under,
         !.actions = r.actions, !.log = r.log, !.user = r.user, !.minted = r.minted,
         !.util = r.util, !.callback = r.callback, !.tok_err = r.tok_err,
         !.reentered = call.reentered /\ r.callback]

ExecuteSubmit ==
    /\ calls < MaxCalls
    /\ \E c \in SubmitCalls, use_allowance \in BOOLEAN :
         Submitted([idle EXCEPT !.op = "submit", !.time = now, !.from = c[1][1], !.spender = c[1][2],
                                !.to = c[1][3], !.use_allowance = use_allowance,
                                !.requests = c[2]],
                   execute_submit(c[1][1], c[1][2], c[1][3], c[2], use_allowance))

ExecuteSubmitWithFlashLoan ==
    /\ calls < MaxCalls
    /\ \E c \in FlashCalls, behaviour \in ReceiverBehaviours :
         Submitted([idle EXCEPT !.op = "flash", !.time = now, !.from = c[1], !.spender = c[1],
                                !.to = c[1], !.use_allowance = TRUE, !.requests = c[3],
                                !.flash_loan = c[2],
                                !.reentered = behaviour \in {"reenter", "reenter_caught"}],
                   execute_submit_with_flash_loan(c[1], c[2], c[3], behaviour))

\* a bad-debt transfer returned r
Transferred(user, r) ==
    /\ Commit(r)
    /\ last' = [idle EXCEPT !.op = "bad_debt", !.time = now, !.err = r.err,
                            !.from = user, !.moved = r.moved]

TransferBadDebt ==
    /\ calls < MaxCalls
    /\ \E user \in Users \cup {Backstop} :
         Transferred(user, transfer_bad_debt_to_backstop(user))

\* an emissions update or claim returned r
EmissionsDone(op, c, r) ==
    /\ Commit(r)
    /\ last' = [idle EXCEPT !.op = op, !.time = now, !.err = r.err, !.from = c[2][1],
                            !.returned = r.returned, !.pool_balance = c[1],
                            !.user_balance = c[2][2]]

UpdateEmissions ==
    /\ calls < MaxCalls
    /\ \E c \in EmissionCalls :
         EmissionsDone("update_emissions", c, update_emissions(c[1], c[2][1], c[2][2]))

ClaimEmissions ==
    /\ calls < MaxCalls
    /\ \E c \in EmissionCalls :
         EmissionsDone("claim_emissions", c, claim_emissions(c[1], c[2][1], c[2][2]))

\* ledger time passes between operations
Tick ==
    /\ now < MaxTime
    /\ calls < MaxCalls
    /\ now' = now + 1
    /\ UNCHANGED <<bstop_rate, res_data, positions, balances, allowance, emis, deposits,
                   pre, last, calls>>

Next ==
    \/ ExecuteSubmit
    \/ ExecuteSubmitWithFlashLoan
    \/ TransferBadDebt
    \/ UpdateEmissions
    \/ ClaimEmissions
    \/ Tick

Spec == Init /\ [][Next]_vars

(***************************************************************************)
(* One reserve on its own: rounds of Reserve::load and Reserve::store at   *)
(* ledger times that never go back, under every accrual calc_accrual may   *)
(* return and every backstop take rate.                                    *)
(***************************************************************************)
\* (loan_accrual, new_ir_mod) pairs calc_accrual may return: accrual >= 1.0
Accruals ==
    [loan_accrual : {SCALAR_9, SCALAR_9 + 1, (105 * SCALAR_9) \div 100, (13 * SCALAR_9) \div 10},
     ir_mod : {SCALAR_9, SCALAR_9 \div 2}]

\* PoolConfig.bstop_rate: 0%, 20% and 100%
TakeRates == {0, SCALAR_7 \div 5, SCALAR_7}

\* the ReserveData the reserve may start with
StartData ==
    { [d_rate |-> dr, b_rate |-> br, ir_mod |-> SCALAR_9, b_supply |-> sup[1],
       d_supply |-> sup[2], backstop_credit |-> 0, last_time |-> 0] :
      dr \in {SCALAR_9, (12346 * SCALAR_9) \div 10000},
      br \in {SCALAR_9, (11235 * SCALAR_9) \div 10000},
      sup \in {<<0, 0>>, <<3, 2>>, <<9900, 6500>>, <<10000, 0>>} }

InitReserve ==
    /\ now = 0
    /\ bstop_rate \in TakeRates
    /\ \E d \in StartData : res_data = [a \in Assets |-> d]
    /\ positions = [h \in Holders |-> EmptyPositions]
    /\ balances = [a \in Assets |-> [x \in Accounts |-> 0]]
    /\ allowance = [a \in Assets |-> [x \in Accounts |-> 0]]
    /\ emis = [config |-> None, data |-> None, user |-> [u \in Users |-> None]]
    /\ deposits = NoDeposits
    /\ pre = [res_data |-> res_data, positions |-> positions,
              balances |-> balances, allowance |-> allowance, emis |-> emis,
              deposits |-> deposits]
    /\ last = [op |-> "none", before |-> res_data[0], loaded |-> reserve_of(0, res_config[0], res_data[0]),
               time |-> 0, acc |-> [loan_accrual |-> SCALAR_9, ir_mod |-> SCALAR_9]]
    /\ calls = 0

\* Reserve::load returned `reserve`, which is stored
Loaded(acc, reserve) ==
    /\ res_data' = [res_data EXCEPT ![0] = store(reserve)]
    /\ last' = [op |-> "load", before |-> res_data[0], loaded |-> reserve,
                time |-> now, acc |-> acc]
    /\ calls' = calls + 1
    /\ UNCHANGED <<now, bstop_rate, positions, balances, allowance, emis, deposits, pre>>

ReserveLoadStore ==
    /\ calls < MaxLoads
    /\ load_ok(0, res_config[0], res_data[0], now)
    /\ \E acc \in Accruals :
         Loaded(acc, load(0, res_config[0], res_data[0], now, bstop_rate, acc))

ReserveTick ==
    /\ now < MaxTime
    /\ now' = now + 1
    /\ UNCHANGED <<bstop_rate, res_data, positions, balances, allowance, emis, deposits,
                   pre, last, calls>>

NextReserve == ReserveLoadStore \/ ReserveTick

SpecReserve == InitReserve /\ [][NextReserve]_vars

(***************************************************************************)
(* The pure functions of Reserve on their own: the token conversions at    *)
(* every rate, factor and amount of a small set, and the utilization and   *)
(* action checks at every supply, rate, cap and action type.  `last` holds *)
(* the inputs and what the functions returned.                             *)
(***************************************************************************)
InitConvert ==
    /\ now = 0
    /\ bstop_rate = 0
    /\ res_data = [a \in Assets |->
                     [d_rate |-> SCALAR_9, b_rate |-> SCALAR_9, ir_mod |-> SCALAR_9,
                      b_supply |-> 0, d_supply |-> 0, backstop_credit |-> 0, last_time |-> 0]]
    /\ positions = [h \in Holders |-> EmptyPositions]
    /\ balances = [a \in Assets |-> [x \in Accounts |-> 0]]
    /\ allowance = [a \in Assets |-> [x \in Accounts |-> 0]]
    /\ emis = [config |-> None, data |-> None, user |-> [u \in Users |-> None]]
    /\ deposits = NoDeposits
    /\ pre = [res_data |-> res_data, positions |-> positions,
              balances |-> balances, allowance |-> allowance, emis |-> emis,
              deposits |-> deposits]
    /\ last = [op |-> "none"]
    /\ calls = 0

\* the d-token and b-token conversions of a reserve with rates d_rate and b_rate
\* and factors l_factor and c_factor, applied to `amount`, and the round trips
ConvertTokens ==
    /\ calls = 0
    /\ \E d_rate \in {1, SCALAR_9 \div 2, SCALAR_9, SCALAR_9 + 1, (12346 * SCALAR_9) \div 10000,
                      (13218 * SCALAR_9) \div 10000},
          b_rate \in {SCALAR_9 \div 2, SCALAR_9, (11235 * SCALAR_9) \div 10000,
                      (13218 * SCALAR_9) \div 10000},
          factor \in {SCALAR_7 \div 2, (85 * SCALAR_7) \div 100, SCALAR_7, (11 * SCALAR_7) \div 10},
          amount \in (0..MaxAmount) \cup {1234, 9999} :
         LET r == [reserve_of(0, res_config[0], res_data[0]) EXCEPT
                     !.d_rate = d_rate, !.b_rate = b_rate,
                     !.l_factor = factor, !.c_factor = factor]
         IN /\ last' = [op |-> "convert", reserve |-> r, amount |-> amount,
                        asset_from_d |-> to_asset_from_d_token(r, amount),
                        asset_from_b |-> to_asset_from_b_token(r, amount),
                        effective_from_d |-> to_effective_asset_from_d_token(r, amount),
                        effective_from_b |-> to_effective_asset_from_b_token(r, amount),
                        d_up |-> to_d_token_up(r, amount),
                        d_down |-> to_d_token_down(r, amount),
                        b_up |-> to_b_token_up(r, amount),
                        b_down |-> to_b_token_down(r, amount),
                        d_up_of_asset |-> to_d_token_up(r, to_asset_from_d_token(r, amount)),
                        d_down_of_asset |-> to_d_token_down(r, to_asset_from_d_token(r, amount)),
                        asset_of_d_up |-> to_asset_from_d_token(r, to_d_token_up(r, amount)),
                        asset_of_b_down |-> to_asset_from_b_token(r, to_b_token_down(r, amount))]
            /\ calls' = 1
            /\ UNCHANGED <<now, bstop_rate, res_data, positions, balances, allowance, emis,
                         deposits, pre>>

\* utilization, require_utilization_below_max and require_action_allowed of a
\* reserve with the given supplies, rates, cap and enabled flag
CheckReserve ==
    /\ calls = 0
    /\ \E sup \in {<<0, 0>>, <<3, 2>>, <<100, 95>>, <<9900, 6500>>, <<10000, 9500>>, <<10000, 0>>},
          d_rate \in {SCALAR_9, (12346 * SCALAR_9) \div 10000},
          b_rate \in {SCALAR_9, (11235 * SCALAR_9) \div 10000},
          cap \in {-1, 0, 1, (95 * SCALAR_7) \div 100},
          enabled \in BOOLEAN, action_type \in RequestTypes :
         LET rr == [reserve_of(0, res_config[0], res_data[0]) EXCEPT
                      !.d_rate = d_rate, !.b_rate = b_rate,
                      !.b_supply = sup[1], !.d_supply = sup[2], !.enabled = enabled]
             \* caps at, just under and just over the utilization, and the default
             r == [rr EXCEPT !.max_util = IF cap = (95 * SCALAR_7) \div 100 THEN cap
                                          ELSE cur_util(rr) + cap]
         IN /\ last' = [op |-> "check", reserve |-> r, action_type |-> action_type,
                        defined |-> utilization_ok(r),
                        utilization |-> cur_util(r),
                        util_err |-> require_utilization_below_max(r),
                        allowed |-> require_action_allowed(r, action_type)]
            /\ calls' = 1
            /\ UNCHANGED <<now, bstop_rate, res_data, positions, balances, allowance, emis,
                         deposits, pre>>

\* gulp on a reserve of any supply and rate, with a negative, zero or positive
\* amount; with accrued > 0 and b_supply = 0 the division has no result and
\* unwrap_optimized aborts
GulpReserve ==
    /\ calls = 0
    /\ \E sup \in {<<0, 0>>, <<3, 2>>, <<9900, 6500>>, <<10000, 0>>},
          b_rate \in {SCALAR_9 \div 2, SCALAR_9, (11235 * SCALAR_9) \div 10000,
                      (13218 * SCALAR_9) \div 10000},
          credit \in {0, 25},
          rate \in TakeRates \cup {1, SCALAR_7 \div 10},
          accrued \in {-5, 0, 1, 7, 100, 1234} :
         LET r == [reserve_of(0, res_config[0], res_data[0]) EXCEPT
                     !.b_rate = b_rate, !.b_supply = sup[1], !.d_supply = sup[2],
                     !.backstop_credit = credit]
             defined == accrued <= 0 \/ r.b_supply # 0
         IN /\ last' = [op |-> "gulp", reserve |-> r, bstop_rate |-> rate,
                        accrued |-> accrued, defined |-> defined,
                        after |-> IF defined THEN gulp(r, rate, accrued) ELSE r]
            /\ calls' = 1
            /\ UNCHANGED <<now, bstop_rate, res_data, positions, balances, allowance, emis,
                         deposits, pre>>

NextConvert == ConvertTokens \/ CheckReserve \/ GulpReserve

SpecConvert == InitConvert /\ [][NextConvert]_vars

(***************************************************************************)
(* Specification SpecEmissions: the distributor from the state in which a  *)
(* pool's emissions are created (index 0, last_time at the creation, no    *)
(* user registered), through updates and claims at non-decreasing times.   *)
(***************************************************************************)
InitEmissions ==
    /\ now = 0
    /\ bstop_rate = 0
    /\ res_data = [a \in Assets |->
                     [d_rate |-> SCALAR_9, b_rate |-> SCALAR_9, ir_mod |-> SCALAR_9,
                      b_supply |-> 0, d_supply |-> 0, backstop_credit |-> 0, last_time |-> 0]]
    /\ positions = [h \in Holders |-> EmptyPositions]
    /\ balances = [a \in Assets |-> [x \in Accounts |-> 0]]
    /\ allowance = [a \in Assets |-> [x \in Accounts |-> 0]]
    /\ \E expiration \in {1, 2, 5} :
         emis = [config |-> Some([expiration |-> expiration, eps |-> SCALAR_7 \div 10]),
                 data |-> Some([index |-> 0, last_time |-> 0]),
                 user |-> [u \in Users |-> None]]
    /\ deposits = NoDeposits
    /\ pre = [res_data |-> res_data, positions |-> positions,
              balances |-> balances, allowance |-> allowance, emis |-> emis,
              deposits |-> deposits]
    /\ last = idle
    /\ calls = 0

\* (pool_balance, user, user_balance) of the calls: a pool with and without
\* queued shares and an empty pool; a user with and without shares
ConsistentCalls ==
    { [shares |-> 1500, q4w |-> 0], [shares |-> 1500, q4w |-> 500], [shares |-> 0, q4w |-> 0] }
    \X { <<"samwise", [shares |-> 90]>>, <<"frodo", [shares |-> 90]>>,
         <<"frodo", [shares |-> 0]>> }

UpdateEmissionsRound ==
    /\ calls < MaxUpdates
    /\ \E c \in ConsistentCalls :
         EmissionsDone("update_emissions", c, update_emissions(c[1], c[2][1], c[2][2]))

ClaimEmissionsRound ==
    /\ calls < MaxUpdates
    /\ \E c \in ConsistentCalls :
         EmissionsDone("claim_emissions", c, claim_emissions(c[1], c[2][1], c[2][2]))

EmissionsTick ==
    /\ now < MaxTime
    /\ calls < MaxUpdates
    /\ now' = now + 1
    /\ UNCHANGED <<bstop_rate, res_data, positions, balances, allowance, emis, deposits,
                   pre, last, calls>>

NextEmissions == UpdateEmissionsRound \/ ClaimEmissionsRound \/ EmissionsTick

SpecEmissions == InitEmissions /\ [][NextEmissions]_vars

(***************************************************************************)
(* Specification SpecShares: the distributor under the backstop's          *)
(* bookkeeping of shares.  The pool balance and the depositors' balances   *)
(* are state; the depositors' shares sum to the pool's unqueued shares,    *)
(* and update_emissions is called for a depositor on the balances as they  *)
(* are before a deposit or a queued withdrawal changes them.  The deposit  *)
(* and withdrawal operations of the backstop are outside this repository's *)
(* distributor and reduced to that bookkeeping.                            *)
(***************************************************************************)
\* an operation on the deposits returned r: the host commits, `last` holds the
\* call and, in `prev`, the call before it
SharesDone(op, user_id, r) ==
    /\ Commit(r)
    /\ last' = [idle EXCEPT !.op = op, !.time = now, !.err = r.err, !.from = user_id,
                            !.returned = r.returned, !.pool_balance = deposits.pool,
                            !.user_balance = deposits.user[user_id],
                            !.prev = [op |-> last.op, time |-> last.time,
                                      from |-> last.from, err |-> last.err,
                                      returned |-> last.returned,
                                      pool_balance |-> last.pool_balance,
                                      user_balance |-> last.user_balance,
                                      emis |-> pre.emis]]

\* a deposit: update_emissions on the balances before it, then the shares are
\* added to the pool's and the depositor's balance
DepositShares ==
    /\ calls < MaxShareCalls
    /\ \E user_id \in DOMAIN deposits.user, amount \in {ShareUnit, 3 * ShareUnit} :
         LET r == update_emissions(deposits.pool, user_id, deposits.user[user_id])
         IN SharesDone("deposit", user_id,
                       [r EXCEPT !.ledger.deposits.pool.shares = @ + amount,
                                 !.ledger.deposits.user[user_id].shares = @ + amount])

\* a withdrawal is queued: update_emissions on the balances before it, then the
\* shares leave the depositor's balance and count as queued in the pool's
QueueShares ==
    /\ calls < MaxShareCalls
    /\ \E user_id \in DOMAIN deposits.user, amount \in {ShareUnit, 3 * ShareUnit} :
         /\ amount <= deposits.user[user_id].shares
         /\ LET r == update_emissions(deposits.pool, user_id, deposits.user[user_id])
            IN SharesDone("queue_withdrawal", user_id,
                          [r EXCEPT !.ledger.deposits.pool.q4w = @ + amount,
                                    !.ledger.deposits.user[user_id].shares = @ - amount])

\* a claim: claim_emissions on the balances as they are; the amount returned is
\* paid out
ClaimShares ==
    /\ calls < MaxShareCalls
    /\ \E user_id \in DOMAIN deposits.user :
         LET r == claim_emissions(deposits.pool, user_id, deposits.user[user_id])
         IN SharesDone("claim_emissions", user_id,
                       [r EXCEPT !.ledger.deposits.claimed = @ + r.returned])

\* ledger time passes between the operations on the deposits
SharesTick ==
    /\ now < MaxTime
    /\ calls < MaxShareCalls
    /\ now' = now + 1
    /\ UNCHANGED <<bstop_rate, res_data, positions, balances, allowance, emis, deposits,
                   pre, last, calls>>

NextShares == DepositShares \/ QueueShares \/ ClaimShares \/ SharesTick

SpecShares == InitEmissions /\ [][NextShares]_vars

(***************************************************************************)
(* Specification SpecCorrupted: one call of the distributor on emission    *)
(* storage of any content, including content no sequence of calls leaves:  *)
(* a last_time ahead of the ledger time or of the expiration, a user index *)
(* ahead of the pool's.                                                    *)
(***************************************************************************)
AnyEmissionStates ==
    { [config |-> Some([expiration |-> expiration, eps |-> eps]),
       data |-> Some([index |-> 22, last_time |-> last_time]),
       user |-> [u \in Users |-> IF u = "samwise" THEN Some([index |-> index, accrued |-> 3])
                                ELSE None]] :
      expiration \in {1, 5}, eps \in {0, SCALAR_7 \div 10},
      last_time \in {0, 1, 3, 5, 6}, index \in {11, 22, 25, 300} }

InitCorrupted ==
    /\ now \in 0..MaxTime
    /\ bstop_rate = 0
    /\ res_data = [a \in Assets |->
                     [d_rate |-> SCALAR_9, b_rate |-> SCALAR_9, ir_mod |-> SCALAR_9,
                      b_supply |-> 0, d_supply |-> 0, backstop_credit |-> 0, last_time |-> 0]]
    /\ positions = [h \in Holders |-> EmptyPositions]
    /\ balances = [a \in Assets |-> [x \in Accounts |-> 0]]
    /\ allowance = [a \in Assets |-> [x \in Accounts |-> 0]]
    /\ emis \in AnyEmissionStates
    /\ deposits = NoDeposits
    /\ pre = [res_data |-> res_data, positions |-> positions,
              balances |-> balances, allowance |-> allowance, emis |-> emis,
              deposits |-> deposits]
    /\ last = idle
    /\ calls = 0

NextCorrupted == UpdateEmissions \/ ClaimEmissions

SpecCorrupted == InitCorrupted /\ [][NextCorrupted]_vars

(***************************************************************************)
(* Properties of the pool operations (specification Spec)                  *)
(***************************************************************************)
\* C1: execute_submit never commits an unhealthy position.  When the batch
\* raised check_health, the user holds liabilities after the requests and the
\* health factor of the built positions is under 1.0000100, the call fails with
\* InvalidHf and reserve data, positions, balances and allowances are what they
\* were; and the positions a successful submit with check_health stored are not
\* under the minimum.
C1_submit_health_gate ==
    last.op = "submit" =>
      /\ (last.built /\ last.check_health /\ last.has_liab /\ last.hf_under
            => last.err = "InvalidHf" /\ ledger_now = pre)
      /\ (last.err = "" /\ last.check_health /\ last.time = now
            /\ has_liabilities(positions[last.from])
            => ~is_hf_under(calculate_from_positions(pool_load, positions[last.from]),
                            min_hf))

\* a submit that raised check_health, left liabilities and was refused as unhealthy
C1_unhealthy_submit_refused ==
    /\ last.op = "submit" /\ last.err = "InvalidHf"
    /\ last.check_health /\ last.has_liab /\ last.hf_under

\* C2: every public operation is all-or-nothing.  When execute_submit,
\* execute_submit_with_flash_loan, transfer_bad_debt_to_backstop, update_emissions
\* or claim_emissions fails, or a token contract it called refused a transfer,
\* the reserve data, every position, the emission data, the token balances and
\* the allowances are what they were before the call.
C2_all_or_nothing ==
    last.op # "none" /\ (last.err # "" \/ last.tok_err # "") => ledger_now = pre

\* a submit aborted in its second token transfer, after the first had gone through
C2_aborted_after_a_transfer ==
    /\ last.op = "submit" /\ last.err = "TokenBalance"
    /\ Len(last.log) = 1 /\ last.log[1].amount > 0

\* C3: execute_submit fails with BadRequest, having built nothing and called no
\* token, whenever from, spender or to is the pool; execute_submit_with_flash_loan
\* fails with BadRequest whenever from is the pool.
C3_pool_address_rejected ==
    /\ (last.op = "submit" /\ Pool \in {last.from, last.spender, last.to}
          => last.err = "BadRequest" /\ ~last.built /\ last.log = <<>> /\ ledger_now = pre)
    /\ (last.op = "flash" /\ last.from = Pool
          => last.err = "BadRequest" /\ ~last.built /\ last.minted = 0
             /\ last.log = <<>> /\ ledger_now = pre)

\* a submit whose recipient alone is the pool was refused
C3_recipient_is_pool ==
    /\ last.op = "submit" /\ last.to = Pool /\ last.from # Pool /\ last.spender # Pool
    /\ last.err = "BadRequest"

\* C4: execute_submit_with_flash_loan checks the health factor whatever the
\* requests are: when the user holds liabilities after the loan and the requests
\* and the health factor is under 1.0000100, the call fails with InvalidHf, and
\* neither the transfer of the principal nor the callback took place.
C4_flash_always_checks_health ==
    last.op = "flash" /\ last.built /\ last.has_liab /\ last.hf_under
      => /\ last.err = "InvalidHf"
         /\ ~last.callback /\ last.log = <<>>
         /\ ledger_now = pre

\* a flash loan whose batch raised no check_health was refused as unhealthy
C4_unhealthy_flash_without_flag ==
    /\ last.op = "flash" /\ last.err = "InvalidHf"
    /\ last.requests # <<>> /\ ~last.check_health /\ last.has_liab

\* C5: a flash-loan submission fails with InvalidUtilRate when the utilization
\* of the borrowed reserve right after the mint of the loan's d-tokens exceeds
\* max_util; no request of the batch is processed before that.
C5_flash_utilization_after_mint ==
    last.op = "flash" /\ last.from # Pool
      /\ last.util > res_config[last.flash_loan.asset].max_util
      => last.err = "InvalidUtilRate" /\ ~last.built /\ ledger_now = pre

\* a flash loan past max_util was refused although the batch supplies enough to
\* the same reserve to bring the utilization back under max_util
C5_later_supply_does_not_help ==
    /\ last.op = "flash" /\ last.err = "InvalidUtilRate"
    /\ \E i \in DOMAIN last.requests :
         /\ last.requests[i].request_type = Supply
         /\ last.requests[i].address = last.flash_loan.asset
         /\ storage_load_ok(last.flash_loan.asset)
         /\ LET reserve == storage_load(last.flash_loan.asset)
            IN require_utilization_below_max(
                   [reserve EXCEPT
                      !.d_supply = @ + last.minted,
                      !.b_supply = @ + to_b_token_down(reserve, last.requests[i].amount)]) = ""

\* C6: transfer_bad_debt_to_backstop fails with BadRequest and changes nothing
\* when the user is the backstop, holds a collateral entry, or has no liabilities.
C6_bad_debt_rejected ==
    last.op = "bad_debt"
      /\ (\/ last.from = Backstop
          \/ DOMAIN pre.positions[last.from].collateral # {}
          \/ DOMAIN pre.positions[last.from].liabilities = {})
      => last.err = "BadRequest" /\ ledger_now = pre

\* a user with liabilities and a collateral entry was refused
C6_collateral_holder_refused ==
    /\ last.op = "bad_debt" /\ last.err = "BadRequest" /\ last.from # Backstop
    /\ DOMAIN pre.positions[last.from].collateral # {}
    /\ DOMAIN pre.positions[last.from].liabilities # {}

\* C7: when transfer_bad_debt_to_backstop succeeds the user ends with no
\* liabilities, the backstop's liability at every reserve index grew by exactly
\* what the user held there, each amount was moved once, and no other position
\* changed.
C7_bad_debt_moves_every_liability ==
    last.op = "bad_debt" /\ last.err = "" =>
      /\ DOMAIN positions[last.from].liabilities = {}
      /\ \A i \in Assets :
           map_get(positions[Backstop].liabilities, i) =
             map_get(pre.positions[Backstop].liabilities, i)
               + map_get(pre.positions[last.from].liabilities, i)
      /\ Len(last.moved) = Cardinality(DOMAIN pre.positions[last.from].liabilities)
      /\ \A i \in DOMAIN pre.positions[last.from].liabilities :
           \E k \in DOMAIN last.moved :
             last.moved[k] = [index |-> i, amount |-> pre.positions[last.from].liabilities[i]]
      /\ positions[last.from].collateral = pre.positions[last.from].collateral
      /\ positions[last.from].supply = pre.positions[last.from].supply
      /\ positions[Backstop].collateral = pre.positions[Backstop].collateral
      /\ positions[Backstop].supply = pre.positions[Backstop].supply
      /\ \A h \in Holders \ {last.from, Backstop} : positions[h] = pre.positions[h]

\* bad debt in two reserves was moved to a backstop that already held a liability
C7_two_reserves_moved ==
    /\ last.op = "bad_debt" /\ last.err = ""
    /\ Cardinality(DOMAIN pre.positions[last.from].liabilities) = 2
    /\ DOMAIN pre.positions[Backstop].liabilities # {}

\* C8 as claimed: under both settlement strategies a successful execute_submit
\* makes, per asset, one token call for the nonzero net of pool-owed minus
\* spender-owed and none when the net is zero.
C8_netted_under_both_strategies ==
    last.op = "submit" /\ last.err = "" =>
      \A a \in Assets :
        LET net == map_get(last.actions.pool_transfer, a)
                     - map_get(last.actions.spender_transfer, a)
            of_asset(e) == e.asset = a
        IN SelectSeq(last.log, of_asset) =
             IF net < 0
             THEN <<[asset |-> a, from |-> last.spender, to |-> Pool, amount |-> -net]>>
             ELSE IF net > 0
             THEN <<[asset |-> a, from |-> Pool, to |-> last.to, amount |-> net]>>
             ELSE <<>>

\* C8 amended: with use_allowance the transfers are netted per asset (one call
\* for a nonzero net, none at zero); without it every entry of spender_transfer
\* is pulled from the spender and then every entry of pool_transfer is pushed to
\* the recipient, un-netted.
C8_settlement_by_strategy ==
    last.op = "submit" /\ last.err = "" =>
      \A a \in Assets :
        LET owed == map_get(last.actions.pool_transfer, a)
            due == map_get(last.actions.spender_transfer, a)
            of_asset(e) == e.asset = a
            pull(amount) == [asset |-> a, from |-> last.spender, to |-> Pool, amount |-> amount]
            push(amount) == [asset |-> a, from |-> Pool, to |-> last.to, amount |-> amount]
        IN SelectSeq(last.log, of_asset) =
             IF last.use_allowance
             THEN IF owed < due THEN <<pull(due - owed)>>
                  ELSE IF owed > due THEN <<push(owed - due)>>
                  ELSE <<>>
             ELSE (IF a \in DOMAIN last.actions.spender_transfer THEN <<pull(due)>> ELSE <<>>)
                  \o (IF a \in DOMAIN last.actions.pool_transfer THEN <<push(owed)>> ELSE <<>>)

\* a submit without allowance made two token calls for one asset
C8_two_calls_for_one_asset ==
    /\ last.op = "submit" /\ last.err = "" /\ ~last.use_allowance
    /\ \E a \in Assets :
         LET of_asset(e) == e.asset = a
         IN Len(SelectSeq(last.log, of_asset)) = 2

\* C16: when the user holds no liabilities after the batch, execute_submit and
\* execute_submit_with_flash_loan do not compute the health factor (no reserve
\* and no price is read for it) and do not fail with InvalidHf, whether or not
\* the batch raised check_health; a submit then fails only if a token transfer
\* does.
C16_no_liabilities_no_health_check ==
    last.op \in {"submit", "flash"} /\ last.built /\ ~last.has_liab
      => /\ ~last.hf_checked
         /\ last.err # "InvalidHf"
         /\ (last.op = "submit" => last.err = last.tok_err)

\* a batch that borrowed and repaid in full raised check_health and succeeded
\* without a health check
C16_borrow_repaid_in_batch ==
    /\ last.op = "submit" /\ last.err = "" /\ last.built
    /\ last.check_health /\ ~last.has_liab /\ ~last.hf_checked
    /\ \E i \in DOMAIN last.requests : last.requests[i].request_type = Borrow

\* C17: after a successful execute_submit of SupplyCollateral(A) on asset X
\* followed by Borrow(B) on another asset Y, the spender has paid exactly A of X
\* to the pool and the pool exactly B of Y to the recipient, and the positions
\* returned and stored hold to_b_token_down(A) more collateral in X and
\* to_d_token_up(B) more liabilities in Y, at the rates of the reserves as
\* loaded.
C17_supply_collateral_then_borrow ==
    last.op = "submit" /\ last.err = "" /\ Len(last.requests) = 2
      /\ last.requests[1].request_type = SupplyCollateral
      /\ last.requests[2].request_type = Borrow
      /\ last.requests[1].address # last.requests[2].address
      => LET X == last.requests[1].address
             Y == last.requests[2].address
             A == last.requests[1].amount
             B == last.requests[2].amount
             moved(a, x) == balances[a][x] - pre.balances[a][x]
         IN /\ moved(X, last.spender) = -A /\ moved(X, Pool) = A
            /\ moved(Y, Pool) = -B /\ moved(Y, last.to) = B
            /\ \A x \in Accounts \ {last.spender, last.to, Pool} :
                 moved(X, x) = 0 /\ moved(Y, x) = 0
            /\ last.user = positions[last.from]
            /\ map_get(positions[last.from].collateral, X)
                 = map_get(pre.positions[last.from].collateral, X)
                     + to_b_token_down(reserve_of(X, res_config[X], res_data[X]), A)
            /\ map_get(positions[last.from].liabilities, Y)
                 = map_get(pre.positions[last.from].liabilities, Y)
                     + to_d_token_up(reserve_of(Y, res_config[Y], res_data[Y]), B)
            /\ positions[last.from].supply = pre.positions[last.from].supply

\* such a batch, paid by one user and received by another, in which both
\* positions grew by less than the amounts requested
C17_positions_record_rounded_shares ==
    /\ last.op = "submit" /\ last.err = "" /\ Len(last.requests) = 2
    /\ last.requests[1].request_type = SupplyCollateral
    /\ last.requests[2].request_type = Borrow
    /\ last.requests[1].address # last.requests[2].address
    /\ last.spender # last.from /\ last.to # last.from /\ last.spender # last.to
    /\ map_get(positions[last.from].collateral, last.requests[1].address)
         - map_get(pre.positions[last.from].collateral, last.requests[1].address)
         < last.requests[1].amount
    /\ map_get(positions[last.from].liabilities, last.requests[2].address)
         - map_get(pre.positions[last.from].liabilities, last.requests[2].address)
         < last.requests[2].amount

\* C38: a successful transfer_bad_debt_to_backstop leaves, for every reserve,
\* the sum of the user's and the backstop's d-token liabilities and the
\* reserve's d_supply and b_supply as they were; the collateral and supply of
\* the user and of the backstop, the positions of everyone else, all token
\* balances and allowances and the emission storage are unchanged.
C38_bad_debt_conserves_debt ==
    last.op = "bad_debt" /\ last.err = ""
      => /\ \A i \in Assets :
              /\ map_get(positions[last.from].liabilities, i)
                   + map_get(positions[Backstop].liabilities, i)
                   = map_get(pre.positions[last.from].liabilities, i)
                       + map_get(pre.positions[Backstop].liabilities, i)
              /\ res_data[i].d_supply = pre.res_data[i].d_supply
              /\ res_data[i].b_supply = pre.res_data[i].b_supply
         /\ \A h \in {last.from, Backstop} :
              /\ positions[h].collateral = pre.positions[h].collateral
              /\ positions[h].supply = pre.positions[h].supply
         /\ \A h \in Holders \ {last.from, Backstop} : positions[h] = pre.positions[h]
         /\ balances = pre.balances /\ allowance = pre.allowance /\ emis = pre.emis

\* bad debt was moved at a time after the reserve was last stored: the
\* reserve accrued, its d_supply stayed
C38_debt_moved_on_accrued_reserve ==
    /\ last.op = "bad_debt" /\ last.err = ""
    /\ \E i \in DOMAIN pre.positions[last.from].liabilities :
         /\ res_data[i].d_rate > pre.res_data[i].d_rate
         /\ res_data[i].last_time > pre.res_data[i].last_time
         /\ res_data[i].d_supply = pre.res_data[i].d_supply
         /\ map_get(positions[Backstop].liabilities, i)
              > map_get(pre.positions[Backstop].liabilities, i)

\* C39 as claimed: for the Actions of a batch and any spender and recipient,
\* when handle_transfers and handle_transfer_with_allowance both succeed they
\* change the pool's balance of every asset by the same amount and leave the
\* spender and the recipient with the same balances of every asset.
C39_strategies_equivalent_for_everyone ==
    last.op = "submit" /\ last.built
      => \A spender \in {"samwise", "frodo"}, to \in {"samwise", "frodo", "merry"} :
           LET tok == [balances |-> pre.balances, allowance |-> pre.allowance,
                       log |-> <<>>, err |-> ""]
               direct == handle_transfers(tok, last.actions, spender, to)
               netted == handle_transfer_with_allowance(tok, last.actions, spender, to)
           IN direct.err = "" /\ netted.err = ""
                => \A a \in Assets :
                     /\ direct.balances[a][Pool] = netted.balances[a][Pool]
                     /\ direct.balances[a][spender] = netted.balances[a][spender]
                     /\ direct.balances[a][to] = netted.balances[a][to]

\* C39: when both strategies succeed they change the pool's balance of every
\* asset by the same amount, what the spender owes minus what the pool owes,
\* and the spender's and the recipient's balances together by the same amount;
\* the spender and the recipient each end with the same balance when they are
\* the same address or when the asset is not both owed by the spender and owed
\* by the pool.
C39_strategies_equivalent_for_the_pool ==
    last.op = "submit" /\ last.built
      => \A spender \in {"samwise", "frodo"}, to \in {"samwise", "frodo", "merry"} :
           LET tok == [balances |-> pre.balances, allowance |-> pre.allowance,
                       log |-> <<>>, err |-> ""]
               direct == handle_transfers(tok, last.actions, spender, to)
               netted == handle_transfer_with_allowance(tok, last.actions, spender, to)
           IN direct.err = "" /\ netted.err = ""
                => \A a \in Assets :
                     /\ direct.balances[a][Pool] = netted.balances[a][Pool]
                     /\ direct.balances[a][Pool] - pre.balances[a][Pool]
                          = map_get(last.actions.spender_transfer, a)
                              - map_get(last.actions.pool_transfer, a)
                     /\ direct.balances[a][spender] + direct.balances[a][to]
                          = netted.balances[a][spender] + netted.balances[a][to]
                     /\ (\/ spender = to
                         \/ a \notin DOMAIN last.actions.spender_transfer
                         \/ a \notin DOMAIN last.actions.pool_transfer)
                          => /\ direct.balances[a][spender] = netted.balances[a][spender]
                             /\ direct.balances[a][to] = netted.balances[a][to]

\* a batch that supplies and borrows one asset, settled for a spender and
\* another recipient: both strategies succeed, the pool ends the same, the
\* recipient receives the borrowed amount only under handle_transfers
C39_recipient_paid_only_directly ==
    /\ last.op = "submit" /\ last.built
    /\ LET tok == [balances |-> pre.balances, allowance |-> pre.allowance,
                   log |-> <<>>, err |-> ""]
           direct == handle_transfers(tok, last.actions, "samwise", "merry")
           netted == handle_transfer_with_allowance(tok, last.actions, "samwise", "merry")
       IN /\ direct.err = "" /\ netted.err = ""
          /\ \E a \in Assets :
               /\ a \in DOMAIN last.actions.spender_transfer
               /\ a \in DOMAIN last.actions.pool_transfer
               /\ direct.balances[a][Pool] = netted.balances[a][Pool]
               /\ direct.balances[a]["merry"] > netted.balances[a]["merry"]
               /\ netted.balances[a]["merry"] = pre.balances[a]["merry"]

\* C32: execute_submit_with_flash_loan mints to_d_token_up(amount) d-tokens on
\* the reserve as loaded and checks its utilization before any request is
\* built; the receiver is called only on built actions whose positions passed
\* the health check, and after the principal went from the pool to the
\* receiver; the only token calls after the callback settle the batch between
\* from and the pool; the positions stored are the ones built from the loan
\* and the requests, and a call that fails at any step stores nothing.
C32_flash_loan_steps_in_order ==
    last.op = "flash" /\ last.from # Pool
      => LET principal == [asset |-> last.flash_loan.asset, from |-> Pool,
                           to |-> last.flash_loan.contract,
                           amount |-> last.flash_loan.amount]
         IN /\ last.err \notin {"", "BadRequest", "Arith"} /\ last.time = now
                 => last.minted
                      = to_d_token_up(load_reserve(pool_load, last.flash_loan.asset),
                                      last.flash_loan.amount)
            /\ last.err = "InvalidUtilRate" => ~last.built /\ ~last.callback
            /\ last.err = "InvalidHf" => last.built /\ ~last.callback /\ last.log = <<>>
            /\ last.callback
                 => /\ last.built /\ ~(last.has_liab /\ last.hf_under)
                    /\ Len(last.log) >= 1 /\ last.log[1] = principal
                    /\ \A i \in 2..Len(last.log) :
                         \/ i = 2 /\ last.log[i].from = Receiver
                         \/ {last.log[i].from, last.log[i].to} = {last.from, Pool}
            /\ last.err = ""
                 => /\ last.callback
                    /\ positions[last.from] = last.user
                    /\ \A a \in Assets :
                         balances[a][Pool] - pre.balances[a][Pool]
                           = map_get(last.actions.spender_transfer, a)
                               - map_get(last.actions.pool_transfer, a)
                               - (IF a = last.flash_loan.asset THEN last.flash_loan.amount
                                  ELSE 0)
            /\ last.err # "" => ledger_now = pre

\* a flash loan whose batch repays it: the liability minted first is
\* extinguished by the Repay, the receiver forwarded the principal to from, and
\* the repayment was pulled from from after the callback
C32_repaid_within_the_batch ==
    /\ last.op = "flash" /\ last.err = "" /\ last.callback
    /\ last.minted > 0
    /\ last.flash_loan.asset \notin DOMAIN last.user.liabilities
    /\ \E i \in DOMAIN last.requests : last.requests[i].request_type = Repay
    /\ Len(last.log) = 3
    /\ last.log[2].from = Receiver /\ last.log[2].to = last.from
    /\ last.log[3].from = last.from /\ last.log[3].to = Pool

C14_accrued_lowered_only_by_claim ==
    /\ last.op = "update_emissions" =>
         \A u \in Users :
           pre.emis.user[u] # None =>
             /\ emis.user[u] # None
             /\ emis.user[u][1].accrued >= pre.emis.user[u][1].accrued
    /\ last.op = "claim_emissions" /\ last.err = "" /\ emis.config # None =>
         emis.user[last.from] = Some([index |-> emis.data[1].index, accrued |-> 0])
    /\ last.op \in {"update_emissions", "claim_emissions"} =>
         \A u \in Users \ {last.from} : emis.user[u] = pre.emis.user[u]

\* an update at the time of the last one, by a user behind the index whose
\* share of the index delta rounds to zero: what was accrued is carried over
C14_update_carries_accrued_over ==
    /\ last.op = "update_emissions" /\ last.err = ""
    /\ pre.emis.user[last.from] # None /\ emis.user[last.from] # None
    /\ pre.emis.user[last.from][1].accrued > 0
    /\ emis.user[last.from][1].index > pre.emis.user[last.from][1].index
    /\ emis.user[last.from][1].accrued = pre.emis.user[last.from][1].accrued

\* C15: claim_emissions returns exactly the accrued amount update_emissions
\* would have left stored for the same storage, time, balances and user; it
\* leaves the record {index: the pool's current index, accrued: 0} and moves no
\* token.
C15_claim_returns_what_update_stores ==
    last.op = "claim_emissions" /\ last.err = "" /\ last.time = now
      /\ pre.emis.config # None
      => /\ emissions_call([emis |-> pre.emis, err |-> ""], last.pool_balance, last.from,
                           last.user_balance, FALSE).st.emis.user[last.from]
              = Some([index |-> emis.data[1].index, accrued |-> last.returned])
         /\ emis.user[last.from] = Some([index |-> emis.data[1].index, accrued |-> 0])
         /\ balances = pre.balances /\ allowance = pre.allowance

\* a claim returned more than was stored before it: the newly accrued share of
\* the index delta is part of what is returned
C15_claim_includes_new_accrual ==
    /\ last.op = "claim_emissions" /\ last.err = "" /\ last.time = now
    /\ pre.emis.user[last.from] # None
    /\ pre.emis.user[last.from][1].accrued > 0
    /\ last.returned > pre.emis.user[last.from][1].accrued

\* C20: without an emission config for the pool, update_emissions and
\* claim_emissions succeed, leave the emission storage as it was (no pool data
\* and no user data appear), and return 0.
C20_no_config_no_write ==
    last.op \in {"update_emissions", "claim_emissions"} /\ pre.emis.config = None
      => /\ last.err = "" /\ last.returned = 0
         /\ emis = pre.emis
         /\ emis.data = None
         /\ \A u \in Users : emis.user[u] = None

\* a claim for a user with shares, in a pool with shares, without a config
C20_claim_without_config ==
    /\ last.op = "claim_emissions" /\ pre.emis.config = None
    /\ last.user_balance.shares > 0 /\ last.pool_balance.shares > last.pool_balance.q4w
    /\ last.time > 0

\* C37 as claimed: update_emissions and claim_emissions do not abort for a pool
\* balance with 0 <= q4w <= shares, all shares queued included, when eps > 0,
\* last_time < now and last_time < expiration.
C37_no_abort_for_consistent_balance ==
    /\ last.op \in {"update_emissions", "claim_emissions"}
    /\ pre.emis.config # None
    /\ 0 <= last.pool_balance.q4w
    /\ last.pool_balance.q4w <= last.pool_balance.shares
    => LET emis_config == pre.emis.config[1]
           emis_data == pre.emis.data[1]
       IN emis_config.eps > 0 /\ emis_data.last_time < last.time
            /\ emis_data.last_time < emis_config.expiration
            => last.err = ""

(***************************************************************************)
(* Properties of Reserve::load (specification SpecReserve)                 *)
(***************************************************************************)
\* C9: a load at a later timestamp of a reserve with nonzero utilization
\* returns d_rate and b_rate not below the stored ones, for every accrual
\* >= SCALAR_9 and every backstop take rate in 0..SCALAR_7.
C9_rates_never_decrease ==
    last.op = "load" /\ last.time > last.before.last_time
      /\ cur_util(reserve_of(0, res_config[0], last.before)) > 0
      => /\ last.loaded.d_rate >= last.before.d_rate
         /\ last.loaded.b_rate >= last.before.b_rate

\* C10: a load at the timestamp the reserve was last stored at returns exactly
\* the stored data: nothing accrues twice within one timestamp.
C10_load_idempotent_within_timestamp ==
    last.op = "load" /\ last.time = last.before.last_time
      => store(last.loaded) = last.before

\* a used reserve was loaded and stored at a time t > 0, then loaded again at t
\* with an accrual above 1.0 on offer
C10_second_load_at_same_time ==
    /\ last.op = "load" /\ calls >= 2
    /\ last.time > 0 /\ last.time = last.before.last_time
    /\ last.acc.loan_accrual > SCALAR_9
    /\ cur_util(reserve_of(0, res_config[0], last.before)) > 0


\* C29: a load at a time later than last_time of a reserve without b-token
\* supply or without utilization returns the stored d_rate, b_rate, ir_mod,
\* backstop_credit, b_supply and d_supply with last_time set to the ledger
\* time; every load returns last_time equal to the ledger time.
C29_load_without_accrual ==
    last.op = "load"
      => LET liabilities == -((-(last.before.d_supply * last.before.d_rate)) \div SCALAR_9)
             supply == (last.before.b_supply * last.before.b_rate) \div SCALAR_9
         IN /\ last.loaded.last_time = last.time
            /\ last.time > last.before.last_time
                 /\ (\/ last.before.b_supply = 0
                     \/ -((-(liabilities * SCALAR_7)) \div supply) = 0)
                 => store(last.loaded) = [last.before EXCEPT !.last_time = last.time]

\* a reserve with supply and no liabilities was loaded at a later time with an
\* accrual above 1.0 and a new rate modifier on offer: only last_time moved
C29_unused_reserve_loaded_later ==
    /\ last.op = "load"
    /\ last.time > last.before.last_time
    /\ last.before.b_supply > 0 /\ last.before.d_supply = 0
    /\ last.acc.loan_accrual > SCALAR_9 /\ last.acc.ir_mod # last.before.ir_mod
    /\ store(last.loaded) = [last.before EXCEPT !.last_time = last.time]

C11_round_trip_brackets_at_any_rate ==
    last.op = "convert" /\ last.reserve.d_rate > 0
      => last.d_up_of_asset >= last.amount /\ last.amount >= last.d_down_of_asset

\* C11 amended: the upper bracket to_d_token_up(to_asset_from_d_token(x)) >= x
\* holds at every positive d_rate; the lower bracket
\* x >= to_d_token_down(to_asset_from_d_token(x)) holds when d_rate >= 1.0.
C11_round_trip_brackets ==
    last.op = "convert" /\ last.reserve.d_rate > 0
      => /\ last.d_up_of_asset >= last.amount
         /\ (last.reserve.d_rate >= SCALAR_9 => last.amount >= last.d_down_of_asset)

\* at a d_rate above 1.0 the round trip up gave more d-tokens than it started with
C11_round_trip_up_is_strict ==
    /\ last.op = "convert" /\ last.reserve.d_rate > SCALAR_9 /\ last.amount > 0
    /\ last.d_up_of_asset > last.amount
    /\ last.d_down_of_asset <= last.amount

\* C12: every conversion rounds against the user.  For an amount A >= 0 and
\* positive rates: the debt minted for a borrow of A is worth at least A, the
\* shares minted for a supply of A are worth at most A, each *_up result is the
\* *_down result or one more, and with a factor <= 1.0 the effective liability
\* is at least the plain liability and the effective collateral at most the
\* plain collateral.
C12_rounding_against_user ==
    last.op = "convert" =>
      /\ last.asset_of_d_up >= last.amount
      /\ last.asset_of_b_down <= last.amount
      /\ last.d_up - last.d_down \in {0, 1}
      /\ last.b_up - last.b_down \in {0, 1}
      /\ (last.reserve.l_factor <= SCALAR_7 => last.effective_from_d >= last.asset_from_d)
      /\ (last.reserve.c_factor <= SCALAR_7 => last.effective_from_b <= last.asset_from_b)

\* an amount for which every rounding is strict: the debt is worth more and the
\* shares less than the amount, up and down differ, and the factor shifts both
\* effective values
C12_every_rounding_strict ==
    /\ last.op = "convert" /\ last.amount > 0 /\ last.reserve.l_factor < SCALAR_7
    /\ last.asset_of_d_up > last.amount /\ last.asset_of_b_down < last.amount
    /\ last.d_up = last.d_down + 1 /\ last.b_up = last.b_down + 1
    /\ last.effective_from_d > last.asset_from_d
    /\ last.effective_from_b < last.asset_from_b

\* C18: require_action_allowed fails with ReserveDisabled exactly when the
\* reserve is disabled and the action is Supply, SupplyCollateral or Borrow;
\* every other combination passes.
C18_disabled_reserve_blocks_inflows ==
    last.op = "check" =>
      last.allowed = IF ~last.reserve.enabled
                        /\ last.action_type \in {Supply, SupplyCollateral, Borrow}
                     THEN "ReserveDisabled" ELSE ""

\* a repayment to a disabled reserve was allowed
C18_repay_to_disabled_reserve ==
    /\ last.op = "check" /\ ~last.reserve.enabled
    /\ last.action_type = Repay /\ last.allowed = ""

\* C19: with total_liabilities = ceil(d_supply * d_rate / SCALAR_9) and
\* total_supply = floor(b_supply * b_rate / SCALAR_9) # 0, utilization() is
\* ceil(total_liabilities * SCALAR_7 / total_supply), and
\* require_utilization_below_max fails, with InvalidUtilRate, exactly when the
\* utilization is above max_util.
C19_utilization_and_its_cap ==
    last.op = "check" =>
      LET liabilities == -((-(last.reserve.d_supply * last.reserve.d_rate)) \div SCALAR_9)
          supply == (last.reserve.b_supply * last.reserve.b_rate) \div SCALAR_9
      IN supply # 0 =>
           /\ last.defined
           /\ last.utilization = -((-(liabilities * SCALAR_7)) \div supply)
           /\ last.util_err = IF last.utilization > last.reserve.max_util
                              THEN "InvalidUtilRate" ELSE ""

\* a reserve whose utilization is exactly max_util passed the check
C19_utilization_at_the_cap_passes ==
    /\ last.op = "check" /\ last.defined /\ last.utilization > 0
    /\ last.utilization = last.reserve.max_util
    /\ last.util_err = ""

\* C30: gulp(bstop_rate, accrued) with accrued > 0 adds
\* floor(accrued * bstop_rate / SCALAR_7) to backstop_credit and sets b_rate to
\* floor((total supply before + accrued - that credit) * SCALAR_9 / b_supply);
\* with accrued <= 0 it changes nothing; it never changes last_time, d_rate,
\* b_supply or d_supply.
C30_gulp ==
    last.op = "gulp" /\ last.defined
      => LET r == last.reserve
             credit == (last.accrued * last.bstop_rate) \div SCALAR_7
             supply == (r.b_supply * r.b_rate) \div SCALAR_9
         IN /\ last.accrued > 0
                 => /\ last.after.backstop_credit = r.backstop_credit + credit
                    /\ last.after.b_rate
                         = ((supply + last.accrued - credit) * SCALAR_9) \div r.b_supply
            /\ last.accrued <= 0 => last.after = r
            /\ last.after = [r EXCEPT !.b_rate = last.after.b_rate,
                                      !.backstop_credit = last.after.backstop_credit]

\* a gulp of a positive amount at a take rate between 0 and 100% raised both the
\* backstop credit and the b_rate
C30_gulp_shares_interest ==
    /\ last.op = "gulp" /\ last.defined /\ last.accrued > 0
    /\ last.bstop_rate > 0 /\ last.bstop_rate < SCALAR_7
    /\ last.reserve.backstop_credit > 0
    /\ last.after.backstop_credit > last.reserve.backstop_credit
    /\ last.after.b_rate > last.reserve.b_rate

\* C34: a gulp of accrued > 0 at a take rate of 0 to 100% raises backstop_credit
\* by at most accrued, and the total supply and the backstop credit together by
\* at most accrued; the same holds, with the interest accrued on the liabilities
\* for accrued, of every load.
C34_no_value_created ==
    /\ last.op = "gulp" /\ last.defined /\ last.accrued > 0
         /\ last.bstop_rate >= 0 /\ last.bstop_rate <= SCALAR_7
         => /\ last.after.backstop_credit - last.reserve.backstop_credit <= last.accrued
            /\ last.after.backstop_credit >= last.reserve.backstop_credit
            /\ (total_supply(last.after) - total_supply(last.reserve))
                 + (last.after.backstop_credit - last.reserve.backstop_credit)
                 <= last.accrued
    /\ last.op = "load"
         => (total_supply(last.loaded) - total_supply(reserve_of(0, res_config[0], last.before)))
              + (last.loaded.backstop_credit - last.before.backstop_credit)
              <= total_liabilities(last.loaded)
                   - total_liabilities(reserve_of(0, res_config[0], last.before))

\* a gulp whose rounding left part of the amount with nobody: supply and
\* credit together grew by less than accrued
C34_rounding_leaves_dust ==
    /\ last.op = "gulp" /\ last.defined /\ last.accrued > 0
    /\ last.bstop_rate > 0 /\ last.bstop_rate < SCALAR_7
    /\ last.after.backstop_credit > last.reserve.backstop_credit
    /\ total_supply(last.after) > total_supply(last.reserve)
    /\ (total_supply(last.after) - total_supply(last.reserve))
         + (last.after.backstop_credit - last.reserve.backstop_credit)
         < last.accrued

C24_first_update_of_user ==
    last.op \in {"update_emissions", "claim_emissions"} /\ last.err = ""
      /\ pre.emis.user[last.from] = None
      => LET pool_index == emis.data[1].index
             accrual == (last.user_balance.shares * pool_index) \div SCALAR_7
         IN /\ last.user_balance.shares = 0 => accrual = 0
            /\ emis.user[last.from]
                 = Some([index |-> pool_index,
                         accrued |-> IF last.op = "claim_emissions" THEN 0 ELSE accrual])
            /\ last.returned = IF last.op = "claim_emissions" THEN accrual ELSE 0

\* a user who held shares before the first call for them is registered with
\* the emissions of the whole index accrued
C24_historical_catch_up ==
    /\ last.op = "update_emissions" /\ last.err = ""
    /\ pre.emis.user[last.from] = None
    /\ pre.emis.data[1].index > 0
    /\ emis.user[last.from] # None
    /\ emis.user[last.from][1].accrued > 0
    /\ emis.user[last.from][1].index = emis.data[1].index

\* C27: from the creation of a pool's emissions on, through any updates and
\* claims at non-decreasing times with consistent balances, every stored user
\* index is at most the stored pool index, the stored last_time is at most the
\* ledger time, and no call aborts.
C27_no_defensive_abort_reachable ==
    /\ emis.data # None
    /\ emis.data[1].last_time <= now
    /\ \A u \in Users : emis.user[u] # None => emis.user[u][1].index <= emis.data[1].index
    /\ last.err = ""

\* after calls at several times one user is behind the pool's index and
\* another at it
C27_users_at_and_behind_the_index ==
    /\ emis.user["samwise"] # None /\ emis.user["frodo"] # None
    /\ emis.user["samwise"][1].index < emis.data[1].index
    /\ emis.user["frodo"][1].index = emis.data[1].index
    /\ emis.user["samwise"][1].index > 0
    /\ emis.data[1].last_time = now /\ now > 1

\* C28: the first index update at a time >= expiration accrues the emissions
\* up to the expiration only and stores a last_time >= expiration; once the
\* stored last_time is >= expiration no update or claim changes the stored index
\* or last_time.
C28_no_emissions_after_expiration ==
    last.op \in {"update_emissions", "claim_emissions"}
      => /\ pre.emis.data[1].last_time >= pre.emis.config[1].expiration
              => emis.data = pre.emis.data
         /\ pre.emis.data[1].last_time < pre.emis.config[1].expiration
              /\ last.time >= pre.emis.config[1].expiration
              /\ last.pool_balance.shares > 0
              => /\ emis.data[1].index - pre.emis.data[1].index
                      = ((pre.emis.config[1].expiration - pre.emis.data[1].last_time)
                           * pre.emis.config[1].eps * SCALAR_7)
                          \div (last.pool_balance.shares - last.pool_balance.q4w)
                 /\ emis.data[1].last_time = last.time
                 /\ emis.data[1].last_time >= pre.emis.config[1].expiration

\* an update of a pool with shares at a time after the last one, which had
\* reached the expiration: the index and last_time stayed
C28_update_after_the_last_period ==
    /\ last.op = "update_emissions" /\ last.err = ""
    /\ pre.emis.data[1].last_time >= pre.emis.config[1].expiration
    /\ pre.emis.data[1].index > 0
    /\ last.time > pre.emis.data[1].last_time
    /\ last.pool_balance.shares > 0
    /\ emis.data = pre.emis.data

(***************************************************************************)
(* Properties of one distributor call on any storage (specification        *)
(* SpecCorrupted)                                                          *)
(***************************************************************************)
\* C22: when now = last_time, or last_time >= expiration, or eps = 0, or the
\* pool has no shares, the stored emission data (index and last_time) is left
\* as it was, the call does not fail with an arithmetic error, and a user
\* record the call writes carries the stored index.
C22_no_update_due_no_write ==
    last.op \in {"update_emissions", "claim_emissions"}
      /\ (\/ last.time = pre.emis.data[1].last_time
          \/ pre.emis.data[1].last_time >= pre.emis.config[1].expiration
          \/ pre.emis.config[1].eps = 0
          \/ last.pool_balance.shares = 0)
      => /\ emis.data = pre.emis.data
         /\ last.err # "Arith"
         /\ (emis.user[last.from] # pre.emis.user[last.from]
               => emis.user[last.from][1].index = pre.emis.data[1].index)

\* an update with emissions running and time passed, on a pool without
\* shares: the user is brought to the stored index, which stays
C22_pool_without_shares ==
    /\ last.op = "update_emissions" /\ last.err = ""
    /\ last.pool_balance.shares = 0
    /\ last.time > pre.emis.data[1].last_time
    /\ pre.emis.data[1].last_time < pre.emis.config[1].expiration
    /\ pre.emis.config[1].eps > 0
    /\ emis.data = pre.emis.data
    /\ emis.user[last.from] # pre.emis.user[last.from]

\* C25 as claimed: update_emissions aborts, leaving the emission storage as it
\* was, whenever q4w exceeds the pool's shares, or the stored user index exceeds
\* the stored pool index for a user with shares, or the stored last_time is
\* later than the ledger time and earlier than the expiration.
C25_corrupted_state_always_aborts ==
    last.op = "update_emissions"
      /\ (\/ last.pool_balance.q4w > last.pool_balance.shares
          \/ /\ pre.emis.user[last.from] # None
             /\ pre.emis.user[last.from][1].index > pre.emis.data[1].index
             /\ last.user_balance.shares # 0
          \/ /\ pre.emis.data[1].last_time > last.time
             /\ pre.emis.data[1].last_time < pre.emis.config[1].expiration)
      => last.err # "" /\ emis = pre.emis

\* C25: update_emissions aborts, leaving the emission storage as it was, when
\* an index update is due (last_time < expiration, now # last_time, eps # 0,
\* shares # 0) and q4w exceeds the pool's shares or last_time is later than the
\* ledger time, and when the stored user index exceeds the index
\* update_emission_data returns for a user with shares.
C25_corrupted_state_aborts_when_used ==
    last.op = "update_emissions" /\ last.time = now
      => LET due == /\ pre.emis.data[1].last_time < pre.emis.config[1].expiration
                    /\ last.time # pre.emis.data[1].last_time
                    /\ pre.emis.config[1].eps # 0
                    /\ last.pool_balance.shares # 0
             d == update_emission_data_with_config([emis |-> pre.emis, err |-> ""],
                                                   last.pool_balance, pre.emis.config[1])
         IN /\ due /\ last.pool_balance.q4w > last.pool_balance.shares
                 => last.err = "NegativeAmountError"
            /\ due /\ pre.emis.data[1].last_time > last.time
                 => last.err \in {"NegativeAmountError", "Arith"}
            /\ d.st.err = "" /\ pre.emis.user[last.from] # None
                 /\ pre.emis.user[last.from][1].index > d.data.index
                 /\ last.user_balance.shares # 0
                 => last.err = "NegativeAmountError"
            /\ last.err # "" => emis = pre.emis

\* the update of a user whose stored index is ahead of the index just
\* computed for the pool was refused
C25_user_index_ahead_refused ==
    /\ last.op = "update_emissions" /\ last.err = "NegativeAmountError"
    /\ last.pool_balance.q4w < last.pool_balance.shares
    /\ last.time > pre.emis.data[1].last_time
    /\ pre.emis.data[1].last_time < pre.emis.config[1].expiration
    /\ pre.emis.config[1].eps > 0
    /\ pre.emis.user[last.from] # None
    /\ pre.emis.user[last.from][1].index > pre.emis.data[1].index
    /\ emis = pre.emis

C35_never_over_distributed ==
    emis.config # None
      => LET accrued_of(u) == IF emis.user[u] = None THEN 0 ELSE emis.user[u][1].accrued
             emis_config == emis.config[1]
             elapsed == IF now > emis_config.expiration THEN emis_config.expiration ELSE now
         IN /\ deposits.user["samwise"].shares + deposits.user["frodo"].shares
                 = deposits.pool.shares - deposits.pool.q4w
            /\ accrued_of("samwise") + accrued_of("frodo") + deposits.claimed
                 <= elapsed * emis_config.eps

\* two depositors hold shares, a claim has been paid, and what is paid and
\* stored is short of the emissions of the elapsed seconds by rounding only
C35_paid_up_to_rounding ==
    /\ emis.config # None
    /\ deposits.user["samwise"].shares > 0 /\ deposits.user["frodo"].shares > 0
    /\ last.op = "claim_emissions" /\ last.returned > 0
    /\ deposits.claimed > now * emis.config[1].eps - emis.config[1].eps
    /\ deposits.claimed < now * emis.config[1].eps
    /\ now < emis.config[1].expiration

C40_empty_period_not_credited ==
    /\ last.op \in {"deposit", "queue_withdrawal", "claim_emissions"} /\ last.err = ""
    /\ last.prev.op \in {"deposit", "queue_withdrawal", "claim_emissions"}
    /\ last.prev.err = ""
    /\ last.prev.pool_balance.shares = 0
    /\ last.prev.time < last.time
    /\ last.time < pre.emis.config[1].expiration
    /\ pre.emis.config[1].eps > 0
    /\ last.pool_balance.shares - last.pool_balance.q4w > 0
    => emis.data[1].index - pre.emis.data[1].index
         <= ((last.time - last.prev.time) * pre.emis.config[1].eps * SCALAR_7)
              \div (last.pool_balance.shares - last.pool_balance.q4w)

====
